---------------------------- MODULE Spec2Model ----------------------------
(***************************************************************************)
(* FAME Smart Flasher (Linux Qt port): the flashing orchestrator           *)
(* FlashingService, its worker thread, the UI thread that calls flash()    *)
(* and cancel(), and the serial device behind SerialConnection.            *)
(*                                                                         *)
(* The worker is modelled statement by statement: one action per step of   *)
(* runFlashing and of the helpers it calls.  The UI thread may call        *)
(* flash() and cancel() between any two worker steps.  The device is       *)
(* nondeterministic: open, write and read may fail, a response may carry   *)
(* any status, any wait may run into its deadline, and the device may stop *)
(* taking the bytes written to it.                                         *)
(***************************************************************************)
EXTENDS Integers, Sequences, FiniteSets, TLC

VARIABLES
    m_isFlashing,   \* FlashingService::m_isFlashing (atomic<bool>)
    m_isCancelled,  \* FlashingService::m_isCancelled (atomic<bool>)
    m_connection,   \* m_connection: "null" | "closed" (m_fd < 0) | "open"
    txFull,         \* the port's output buffer is full: ::write gives EAGAIN
    w,              \* frame of the worker thread that owns the current run
    events,         \* stateChanged events emitted by the current run
    wire,           \* frames the current run has written to the transport
    hist,           \* history of the current run (what was requested when)
    tails,          \* earlier runs whose worker is past cleanup() but has
                    \* not emitted its Error event yet, or has just done so
    runs,           \* number of accepted flash() calls
    rejected,       \* the last step was a flash() that was turned away
    overlap         \* steps the current worker made while a tail is pending

\* SLIPCodec and SLIPDecoder (protocol/SLIPCodec.cpp)
VARIABLES
    rawData,         \* the bytes given to encode, or to process as they are
    slipPacket,      \* encode(rawData), once it was built
    decoded,         \* what decode(slipPacket) returned, once it was called
    m_buffer,        \* SLIPDecoder::m_buffer
    m_inEscape,      \* SLIPDecoder::m_inEscape
    m_packetStarted, \* SLIPDecoder::m_packetStarted
    feed,            \* process: the bytes of its argument still to come
    packets          \* process: the packets collected so far

\* a call of a function of the packet layer or of the firmware bundle
VARIABLES
    arg,             \* the function that is called and its argument
    ret              \* {} before the call has returned, then {its result}

\* SerialConnection objects and the locks on the device files
VARIABLES
    m_fd,            \* SerialConnection::m_fd of each connection: the device
                     \* file its descriptor is open on, or none (-1)
    opening,         \* the connections inside open(), between ::open and flock
    flocks,          \* per device file, the connections whose descriptor
                     \* holds the exclusive lock
    outcome,         \* how the last open() of each connection ended
    released         \* per device file: its lock was held and given up

\* FlasherWidget (ui/FlasherWidget.cpp)
VARIABLES
    m_firmwareFile,  \* std::optional<FirmwareFile>: {} or {the bundle}
    m_currentState   \* the FlashingState the widget shows

\* the control lines of the port a SerialConnection is open on
VARIABLES
    dtr,             \* TIOCM_DTR of the port: the line is asserted
    rts,             \* TIOCM_RTS of the port: the line is asserted
    portLog          \* the calls made on the connection, in order, each with
                     \* the lines as it left them

serviceVars ==
    <<m_isFlashing, m_isCancelled, m_connection, txFull, w, events, wire,
      hist, tails, runs, rejected, overlap>>

slipVars ==
    <<rawData, slipPacket, decoded, m_buffer, m_inEscape, m_packetStarted, feed,
      packets>>

callVars == <<arg, ret>>

serialVars == <<m_fd, opening, flocks, outcome, released>>

widgetVars == <<m_firmwareFile, m_currentState>>

lineVars == <<dtr, rts, portLog>>

\* what the service, as it is modelled here, does not touch
apart == <<slipVars, callVars, serialVars, widgetVars, lineVars>>

\* what the codec, the packet layer and the connections leave alone
beyondCodec == <<serviceVars, callVars, serialVars, widgetVars, lineVars>>
beyondPacket == <<serviceVars, slipVars, serialVars, widgetVars, lineVars>>
beyondSerial == <<serviceVars, slipVars, callVars, widgetVars, lineVars>>

vars == <<serviceVars, apart>>

----------------------------------------------------------------------------
(* Bounds of the model *)

\* accepted flash() calls
MaxRuns == 2
\* steps a new worker makes while an earlier worker has still to emit
MaxOverlap == 2

----------------------------------------------------------------------------
(* Program constants *)

SYNC_RETRIES == 20
REOPEN_ATTEMPTS == 5
SYNC_DRAIN_READS == 7
FLASH_BLOCK_SIZE == 1024
DEFAULT_BAUD == 115200

\* enum class ESP32Command
Sync == 8
FlashBegin == 2
FlashData == 3
FlashEnd == 4
ChangeBaudRate == 15
ReadReg == 10
WriteReg == 9
SpiAttach == 13

\* A uint32_t is kept as its two 16-bit halves <<high, low>>.
W32(high, low) == <<high, low>>
Zero32 == W32(0, 0)

RECURSIVE BitAnd(_, _)
BitAnd(a, b) ==
    IF a = 0 \/ b = 0
    THEN 0
    ELSE (a % 2) * (b % 2) + 2 * BitAnd(a \div 2, b \div 2)

RECURSIVE BitOr(_, _)
BitOr(a, b) ==
    IF a = 0 /\ b = 0
    THEN 0
    ELSE (IF a % 2 = 1 \/ b % 2 = 1 THEN 1 ELSE 0)
         + 2 * BitOr(a \div 2, b \div 2)

\* x & y, x | y, ~x on uint32_t
And32(x, y) == W32(BitAnd(x[1], y[1]), BitAnd(x[2], y[2]))
Or32(x, y) == W32(BitOr(x[1], y[1]), BitOr(x[2], y[2]))
Not32(x) == W32(65535 - x[1], 65535 - x[2])

\* namespace ESP32C3Registers
RTC_CNTL_BASE == W32(24576, 32768)
RTC_WDT_CONFIG0 == W32(RTC_CNTL_BASE[1], RTC_CNTL_BASE[2] + 144)
RTC_WDT_WPROTECT == W32(RTC_CNTL_BASE[1], RTC_CNTL_BASE[2] + 168)
RTC_WDT_WKEY == W32(20696, 15009)
SWD_CONF == W32(RTC_CNTL_BASE[1], RTC_CNTL_BASE[2] + 172)
SWD_WPROTECT == W32(RTC_CNTL_BASE[1], RTC_CNTL_BASE[2] + 176)
SWD_WKEY == W32(36637, 12586)
WDT_EN_BIT == W32(32768, 0)
SWD_AUTO_FEED_EN_BIT == W32(32768, 0)

----------------------------------------------------------------------------
(* Inputs of flash(): firmware bundles, device descriptors, baud rates *)

Image(offset, size) == [offset |-> offset, size |-> size]

\* FirmwareFile values handed to flash(): the images in offset order
Bundles ==
    { <<Image(65536, 2048)>>,
      <<Image(0, 1500), Image(65536, 4000)>> }

BaudRates == {115200, 921600}

\* SerialPort::isESP32C3 of the descriptors handed to flash()
Descriptors == { [vendorId |-> 12346, productId |-> 4097],
                 [vendorId |-> 4292, productId |-> 60000] }

isESP32C3(port) == port.vendorId = 12346 /\ port.productId = 4097

\* FirmwareFile::totalSize
RECURSIVE SumSizes(_)
SumSizes(imgs) ==
    IF imgs = <<>> THEN 0 ELSE Head(imgs).size + SumSizes(Tail(imgs))

totalSize(firmware) == SumSizes(firmware)

\* (image.size() + blockSize - 1) / blockSize
NumBlocks(image) == (image.size + FLASH_BLOCK_SIZE - 1) \div FLASH_BLOCK_SIZE

----------------------------------------------------------------------------
(* Exception messages.  A message is kept as its kind and the numbers      *)
(* formatted into it; Text gives its characters (a formatted number is the *)
(* character N), so that QString::contains is computed, not assumed.       *)

Msg(kind, a, b) == [kind |-> kind, a |-> a, b |-> b]
NoMsg == Msg("none", 0, 0)

Text(kind) ==
  CASE kind = "Cancelled" -> \* "Cancelled"
         <<"C","a","n","c","e","l","l","e","d">>
    [] kind = "FailedToSync" -> \* "Failed to sync with bootloader"
         <<"F","a","i","l","e","d"," ","t","o"," ","s","y","n","c"," ","w","i","t","h"," ","b","o","o","t","l","o","a","d","e","r">>
    [] kind = "SyncFailed" -> \* "Sync failed"
         <<"S","y","n","c"," ","f","a","i","l","e","d">>
    [] kind = "CouldNotReopen" -> \* "Could not reopen port after reset"
         <<"C","o","u","l","d"," ","n","o","t"," ","r","e","o","p","e","n"," ","p","o","r","t"," ","a","f","t","e","r"," ","r","e","s","e","t">>
    [] kind = "CannotOpen" -> \* "Cannot open port: Device or resource busy"
         <<"C","a","n","n","o","t"," ","o","p","e","n"," ","p","o","r","t",":"," ","D","e","v","i","c","e"," ","o","r"," ","r","e","s","o","u","r","c","e"," ","b","u","s","y">>
    [] kind = "WriteFailed" -> \* "Write failed: Input/output error"
         <<"W","r","i","t","e"," ","f","a","i","l","e","d",":"," ","I","n","p","u","t","/","o","u","t","p","u","t"," ","e","r","r","o","r">>
    [] kind = "ReadFailed" -> \* "Read failed: Input/output error"
         <<"R","e","a","d"," ","f","a","i","l","e","d",":"," ","I","n","p","u","t","/","o","u","t","p","u","t"," ","e","r","r","o","r">>
    [] kind = "NotConnected" -> \* "Not connected"
         <<"N","o","t"," ","c","o","n","n","e","c","t","e","d">>
    [] kind = "InvalidConfiguration" -> \* "Invalid serial configuration"
         <<"I","n","v","a","l","i","d"," ","s","e","r","i","a","l"," ","c","o","n","f","i","g","u","r","a","t","i","o","n">>
    [] kind = "Timeout" -> \* "Timeout waiting for N response"
         <<"T","i","m","e","o","u","t"," ","w","a","i","t","i","n","g"," ","f","o","r"," ","N"," ","r","e","s","p","o","n","s","e">>
    [] kind = "SpiAttachFailed" -> \* "SPI attach failed: status=N, error=N"
         <<"S","P","I"," ","a","t","t","a","c","h"," ","f","a","i","l","e","d",":"," ","s","t","a","t","u","s","=","N",","," ","e","r","r","o","r","=","N">>
    [] kind = "ReadRegFailed" -> \* "READ_REG failed at 0xN"
         <<"R","E","A","D","_","R","E","G"," ","f","a","i","l","e","d"," ","a","t"," ","0","x","N">>
    [] kind = "WriteRegFailed" -> \* "WRITE_REG failed at 0xN"
         <<"W","R","I","T","E","_","R","E","G"," ","f","a","i","l","e","d"," ","a","t"," ","0","x","N">>
    [] kind = "FlashBeginFailed" -> \* "Flash begin failed: status=N"
         <<"F","l","a","s","h"," ","b","e","g","i","n"," ","f","a","i","l","e","d",":"," ","s","t","a","t","u","s","=","N">>
    [] kind = "FlashDataFailed" -> \* "Flash data failed at block N: status=N"
         <<"F","l","a","s","h"," ","d","a","t","a"," ","f","a","i","l","e","d"," ","a","t"," ","b","l","o","c","k"," ","N",":"," ","s","t","a","t","u","s","=","N">>
    [] OTHER -> <<>>

\* QString::contains(needle), case sensitive
Contains(text, needle) ==
    \E i \in 1..(Len(text) - Len(needle) + 1) :
        SubSeq(text, i, i + Len(needle) - 1) = needle

NeedleCancelled == <<"C","a","n","c","e","l","l","e","d">>
NeedleSync == <<"s","y","n","c">>
NeedleCannotOpen == <<"C","a","n","n","o","t"," ","o","p","e","n">>
NeedleReopen == <<"r","e","o","p","e","n">>

----------------------------------------------------------------------------
(* FlashingState: the events of the stateChanged signal.  progress is kept *)
(* as the exact fraction num/den.                                          *)

State(type) ==
    [type |-> type, num |-> 0, den |-> 1, errorType |-> "None",
     errorMessage |-> NoMsg, errorData |-> 0]

idle == State("Idle")
connecting == State("Connecting")
syncing == State("Syncing")
changingBaudRate == State("ChangingBaudRate")
erasing == State("Erasing")
flashing(num, den) == [State("Flashing") EXCEPT !.num = num, !.den = den]
verifying == State("Verifying")
restarting == State("Restarting")
complete == State("Complete")
error(type, message, data) ==
    [State("Error") EXCEPT !.errorType = type, !.errorMessage = message,
                           !.errorData = data]

----------------------------------------------------------------------------
(* Frames on the wire: the command packets the worker hands to write().    *)

Frame(op, args) == [op |-> op, args |-> args]

\* ESP32Protocol::build*Command, by opcode and payload words
buildSyncCommand == Frame(Sync, <<>>)
buildReadRegCommand(address) == Frame(ReadReg, <<address>>)
buildWriteRegCommand(address, value) ==
    Frame(WriteReg, <<address, value, W32(65535, 65535), Zero32>>)
buildChangeBaudCommand(newBaud, oldBaud) ==
    Frame(ChangeBaudRate, <<newBaud, oldBaud>>)
buildSpiAttachCommand == Frame(SpiAttach, <<0, 0>>)
buildFlashBeginCommand(size, numBlocks, blockSize, offset) ==
    Frame(FlashBegin, <<size, numBlocks, blockSize, offset, 0>>)
\* the block is named by the image bytes [from, to) it carries and its 0xFF
\* padding
buildFlashDataCommand(block, sequenceNumber) ==
    Frame(FlashData, <<block.len, sequenceNumber, 0, 0, block>>)
buildFlashEndCommand(reboot) == Frame(FlashEnd, <<IF reboot THEN 0 ELSE 1>>)

\* The log of written frames.  A SYNC written right after a SYNC is not
\* logged again: the retries of one sync round leave one entry.
Written(log, frame) ==
    IF frame.op = Sync /\ log # <<>> /\ log[Len(log)] = frame
    THEN log
    ELSE Append(log, frame)

HasFrame(log, op) == \E i \in 1..Len(log) : log[i].op = op

----------------------------------------------------------------------------
(* The device: what open, write and read can do.                           *)

Response(status, err, value) ==
    [status |-> status, error |-> err, value |-> value]

\* ESP32Response::isSuccess
isSuccess(response) == response.status = 0 /\ response.error = 0

\* register contents a READ_REG may report
RegValues == {W32(0, 5), W32(32768, 5)}

\* the matching responses the loader may send to a command
Responses(command) ==
    {Response(1, 0, Zero32), Response(0, 5, Zero32)}
    \cup (IF command = ReadReg
          THEN {Response(0, 0, v) : v \in RegValues}
          ELSE {Response(0, 0, Zero32)})

Thrown(msg) == [threw |-> TRUE, msg |-> msg, response |-> Response(0, 0, Zero32)]
Returned(r) == [threw |-> FALSE, msg |-> NoMsg, response |-> r]

\* SerialConnection::open: the path opens and locks, or CannotOpen
OpenOutcomes == {Returned(Response(0, 0, Zero32)), Thrown(Msg("CannotOpen", 0, 0))}

\* SerialConnection::write: NotConnected without a descriptor; else the
\* loop ends when all bytes are written or with WriteFailed.  While ::write
\* answers EAGAIN the loop sleeps 1 ms and tries again, without a limit and
\* without a look at m_isCancelled: the call does not return.
WriteOutcomes(connection, full) ==
    IF connection # "open"
    THEN {Thrown(Msg("NotConnected", 0, 0))}
    ELSE IF full
    THEN {}
    ELSE {Returned(Response(0, 0, Zero32)), Thrown(Msg("WriteFailed", 0, 0))}

\* SerialConnection::setBaudRate
SetBaudOutcomes(connection) ==
    IF connection # "open"
    THEN {Thrown(Msg("NotConnected", 0, 0))}
    ELSE {Returned(Response(0, 0, Zero32)),
          Thrown(Msg("InvalidConfiguration", 0, 0))}

\* FlashingService::waitForResponse(command, timeout): the ways the loop
\* ends.  The deadline may pass at any check of the loop condition; an
\* iteration first polls m_isCancelled, then reads; a read that brings no
\* matching frame (nothing, noise, another opcode) only repeats the loop.
waitForResponse(command, cancelled, connection) ==
    {Thrown(Msg("Timeout", command, 0))}
    \cup (IF cancelled
          THEN {Thrown(Msg("Cancelled", 0, 0))}
          ELSE IF connection # "open"
          THEN {Thrown(Msg("NotConnected", 0, 0))}
          ELSE {Thrown(Msg("ReadFailed", 0, 0))}
               \cup {Returned(r) : r \in Responses(command)})

----------------------------------------------------------------------------
(* The worker's frame and the routing of exceptions                        *)

IdleFrame ==
    [pc |-> "idle", firmware |-> <<>>, port |-> [vendorId |-> 0, productId |-> 0],
     usb |-> FALSE, baudRate |-> DEFAULT_BAUD,
     syncSucceeded |-> FALSE, ctx |-> "none", attempt |-> 0, drain |-> 0,
     reopen |-> 0, wd |-> 0, regVal |-> Zero32, img |-> 0, blockNum |-> 0,
     bytesFlashed |-> 0, msg |-> NoMsg, m_currentBaudRate |-> DEFAULT_BAUD]

\* what has happened to a run: cancel() was called during it (cancelReq),
\* called before its FLASH_END was written (cancelPre), called between its
\* first Syncing event and the writing of FLASH_END (cancelWin); its
\* cleanup() has run; how often syncWithRetry has given up; which of the
\* frames it has written were answered with a success response (acked, by
\* their places in the log of written frames)
NewHist ==
    [cancelReq |-> FALSE, cancelPre |-> FALSE, cancelWin |-> FALSE,
     cleaned |-> FALSE, exhausted |-> 0, acked |-> {}]

\* the outer catch of runFlashing: the frame unwinds to the handler, whose
\* first statement is cleanup(); the worker is then about to emit the Error
Catch(f, msg) ==
    [IdleFrame EXCEPT !.pc = "emitError", !.firmware = f.firmware,
                      !.port = f.port, !.usb = f.usb,
                      !.baudRate = f.baudRate, !.msg = msg]

\* step 4 of runFlashing: the baud change is skipped at the default rate
AfterSyncPc(f) ==
    IF f.baudRate # DEFAULT_BAUD THEN "emitBaud" ELSE "spi_write"

\* a first-round handler that starts the connection over to reopen the port
FirstRoundCatchReconnects(f) ==
    IF f.syncSucceeded
    THEN [f EXCEPT !.pc = AfterSyncPc(f), !.ctx = "none", !.wd = 0,
                   !.regVal = Zero32]
    ELSE [f EXCEPT !.pc = "start", !.ctx = "none", !.attempt = 0]

\* the catch of the first sync round: whatever was thrown is dropped
FirstRoundCatch(f) ==
    IF f.syncSucceeded
    THEN [f EXCEPT !.pc = AfterSyncPc(f), !.ctx = "none", !.wd = 0, !.regVal = Zero32]
    ELSE [f EXCEPT !.pc = "reopenClose", !.ctx = "none", !.attempt = 0]

\* a syncWithRetry that gives up with the text of performSync's own error
SyncRetryCatchCapitalised(f) ==
    IF f.attempt = SYNC_RETRIES
    THEN IF f.ctx = "sync1"
         THEN FirstRoundCatch(f)
         ELSE Catch(f, Msg("SyncFailed", 0, 0))
    ELSE [f EXCEPT !.pc = "sync_write", !.attempt = f.attempt + 1, !.drain = 0]

\* the catch inside syncWithRetry: retry, or give up after SYNC_RETRIES
SyncRetryCatch(f) ==
    IF f.attempt = SYNC_RETRIES
    THEN IF f.ctx = "sync1"
         THEN FirstRoundCatch(f)
         ELSE Catch(f, Msg("FailedToSync", 0, 0))
    ELSE [f EXCEPT !.pc = "sync_write", !.attempt = f.attempt + 1, !.drain = 0]

\* where an exception thrown at the worker's position lands
Throw(f, msg) ==
    CASE f.ctx \in {"sync1", "sync2"} -> SyncRetryCatch(f)
      [] f.ctx = "wd1" -> FirstRoundCatch(f)
      [] OTHER -> Catch(f, msg)

\* syncWithRetry gave up at this step
Exhausts(f) == f.ctx \in {"sync1", "sync2"} /\ f.attempt = SYNC_RETRIES

----------------------------------------------------------------------------
(* Runs.  The current run is <<w, events, wire, hist>>; a run whose worker *)
(* has left cleanup() and is overtaken by a new accepted flash() lives on  *)
(* in tails until it has emitted.  Of such a run the model keeps the       *)
(* worker's position and exception message and the history, and of its    *)
(* events the one it has still to emit; its worker writes nothing more.    *)

HasEvent(ev, type) == \E i \in 1..Len(ev) : ev[i].type = type

\* between the first Syncing event and the writing of FLASH_END
InWindow(ev, wr) == HasEvent(ev, "Syncing") /\ ~HasFrame(wr, FlashEnd)

MainView ==
    [pc |-> w.pc, events |-> events, hist |-> hist, msg |-> w.msg,
     window |-> InWindow(events, wire), ended |-> HasFrame(wire, FlashEnd)]

\* the current run as it is kept once a new run has been accepted
AsTail ==
    [MainView EXCEPT !.events = <<>>, !.hist = [@ EXCEPT !.acked = {}]]

RunViews == {MainView} \cup tails

Pending == \E t \in tails : t.pc # "done"

WorkerMayRun == ~Pending \/ overlap < MaxOverlap

Live(pc) == pc \notin {"idle", "done"}

\* one step of the current worker
Step(f, ev, wr, h, connection, isFlashing) ==
    /\ WorkerMayRun
    /\ w' = f
    /\ events' = ev
    /\ wire' = wr
    /\ hist' = h
    /\ m_connection' = connection
    /\ m_isFlashing' = isFlashing
    /\ overlap' = IF Pending THEN overlap + 1 ELSE 0
    /\ tails' = {t \in tails : t.pc # "done"}
    /\ rejected' = FALSE
    /\ UNCHANGED <<m_isCancelled, txFull, runs, apart>>

\* a step that only moves the worker
Move(f) == Step(f, events, wire, hist, m_connection, m_isFlashing)

\* a step at which waitForResponse returns a success response to the frame
\* written last
Answered(f) ==
    Step(f, events, wire, [hist EXCEPT !.acked = @ \cup {Len(wire)}],
         m_connection, m_isFlashing)

\* a step that emits a stateChanged event
Emit(f, e) ==
    Step(f, Append(events, e), wire, hist, m_connection, m_isFlashing)

\* a step that ends with the cleanup lambda: close and drop the connection,
\* reset m_isFlashing
Cleanup(f, h) ==
    Step(f, events, wire, [h EXCEPT !.cleaned = TRUE], "null", FALSE)

\* a step at which an exception is thrown; one that reaches the outer
\* handler runs cleanup() there
Raise(msg) ==
    LET f == Throw(w, msg)
        h == [hist EXCEPT !.exhausted = IF Exhausts(w) THEN @ + 1 ELSE @]
    IN IF f.pc = "emitError"
       THEN Cleanup(f, h)
       ELSE Step(f, events, wire, h, m_connection, m_isFlashing)

\* write(frame) at the worker's position, then go to `next`
WriteStep(frame, next) ==
    \E o \in WriteOutcomes(m_connection, txFull) :
        IF o.threw
        THEN Raise(o.msg)
        ELSE Step([w EXCEPT !.pc = next], events, Written(wire, frame), hist,
                  m_connection, m_isFlashing)

----------------------------------------------------------------------------
\* a FlashingService after construction
ServiceInit ==
    /\ m_isFlashing = FALSE
    /\ m_isCancelled = FALSE
    /\ m_connection = "null"
    /\ txFull = FALSE
    /\ w = IdleFrame
    /\ events = <<>>
    /\ wire = <<>>
    /\ hist = NewHist
    /\ tails = {}
    /\ runs = 0
    /\ rejected = FALSE
    /\ overlap = 0

\* a SLIPDecoder after construction
FreshDecoder ==
    /\ m_buffer = <<>>
    /\ m_inEscape = FALSE
    /\ m_packetStarted = FALSE

\* no codec call has been made
SlipInit ==
    /\ slipPacket = {}
    /\ decoded = {}
    /\ FreshDecoder
    /\ feed = {}
    /\ packets = <<>>

\* no call is under way
NoCall ==
    /\ arg = [fn |-> "none"]
    /\ ret = {}

\* the codec is not in use
CodecIdle ==
    /\ rawData = <<>>
    /\ SlipInit

\* no SerialConnection is looked at on its own
NoSerial ==
    /\ m_fd = <<>>
    /\ opening = {}
    /\ flocks = <<>>
    /\ outcome = <<>>
    /\ released = <<>>

\* the widget is not looked at
NoWidget ==
    /\ m_firmwareFile = {}
    /\ m_currentState = idle

\* no port's control lines are looked at
NoLines ==
    /\ dtr = FALSE
    /\ rts = FALSE
    /\ portLog = <<>>

Init ==
    /\ ServiceInit
    /\ CodecIdle
    /\ NoCall
    /\ NoSerial
    /\ NoWidget
    /\ NoLines

----------------------------------------------------------------------------
(* The UI thread *)

\* a flash() that clears the cancel flag before it looks at m_isFlashing
FlashClearsCancel(firmware, port, baudRate) ==
    IF m_isFlashing
    THEN /\ rejected' = TRUE
         /\ m_isCancelled' = FALSE
         /\ UNCHANGED <<m_isFlashing, m_connection, txFull, w, events, wire,
                        hist, tails, runs, overlap, apart>>
    ELSE /\ runs < MaxRuns
         /\ m_isCancelled' = FALSE
         /\ m_isFlashing' = TRUE
         /\ w' = [IdleFrame EXCEPT !.pc = "start", !.firmware = firmware,
                                   !.port = port, !.baudRate = baudRate]
         /\ tails' = {t \in tails : t.pc # "done"}
                     \cup (IF w.pc = "emitError" THEN {AsTail} ELSE {})
         /\ events' = <<>>
         /\ wire' = <<>>
         /\ hist' = NewHist
         /\ runs' = runs + 1
         /\ overlap' = 0
         /\ rejected' = FALSE
         /\ UNCHANGED <<m_connection, txFull, apart>>

\* FlashingService::flash
Flash(firmware, port, baudRate) ==
    IF m_isFlashing
    THEN /\ rejected' = TRUE
         /\ UNCHANGED <<m_isFlashing, m_isCancelled, m_connection, txFull, w,
                        events, wire, hist, tails, runs, overlap, apart>>
    ELSE /\ runs < MaxRuns
         /\ m_isCancelled' = FALSE
         /\ m_isFlashing' = TRUE
         /\ w' = [IdleFrame EXCEPT !.pc = "start", !.firmware = firmware,
                                   !.port = port, !.baudRate = baudRate]
         /\ tails' = {t \in tails : t.pc # "done"}
                     \cup (IF w.pc = "emitError" THEN {AsTail} ELSE {})
         /\ events' = <<>>
         /\ wire' = <<>>
         /\ hist' = NewHist
         /\ runs' = runs + 1
         /\ overlap' = 0
         /\ rejected' = FALSE
         /\ UNCHANGED <<m_connection, txFull, apart>>

\* the history of a run after a cancel() request
Requested(h, window, ended) ==
    [h EXCEPT !.cancelReq = TRUE, !.cancelPre = @ \/ ~ended,
              !.cancelWin = @ \/ window]

\* FlashingService::cancel
Cancel ==
    /\ m_isCancelled' = TRUE
    /\ hist' = IF Live(w.pc)
               THEN Requested(hist, InWindow(events, wire),
                              HasFrame(wire, FlashEnd))
               ELSE hist
    /\ tails' = {IF t.pc = "done"
                 THEN t
                 ELSE [t EXCEPT !.hist = Requested(t.hist, t.window, t.ended)]
                 : t \in tails}
    /\ rejected' = FALSE
    /\ UNCHANGED <<m_isFlashing, m_connection, txFull, w, events, wire, runs,
                   overlap, apart>>

----------------------------------------------------------------------------
(* The device's side of the output buffer *)

\* the positions at which the worker is about to call write()
WritePositions ==
    {"sync_write", "wd_write", "baud_write", "spi_write", "begin_write",
     "data_write", "end_write"}

\* the device stops taking bytes and the output buffer has filled up; the
\* buffer matters to write() only, so it is looked at where one is due
TxStall ==
    /\ ~txFull
    /\ m_connection = "open"
    /\ w.pc \in WritePositions
    /\ txFull' = TRUE
    /\ rejected' = FALSE
    /\ UNCHANGED <<m_isFlashing, m_isCancelled, m_connection, w, events, wire,
                   hist, tails, runs, overlap, apart>>

\* the device takes bytes again
TxDrain ==
    /\ txFull
    /\ txFull' = FALSE
    /\ rejected' = FALSE
    /\ UNCHANGED <<m_isFlashing, m_isCancelled, m_connection, w, events, wire,
                   hist, tails, runs, overlap, apart>>

----------------------------------------------------------------------------
(* The worker: runFlashing up to the end of the sync stage                 *)

\* the catch block's choice of the Error event
ErrorEvent(msg, cancelled) ==
    IF cancelled \/ Contains(Text(msg.kind), NeedleCancelled)
    THEN error("Cancelled", NoMsg, 0)
    ELSE IF Contains(Text(msg.kind), NeedleSync)
    THEN error("SyncFailed", msg, SYNC_RETRIES)
    ELSE IF Contains(Text(msg.kind), NeedleCannotOpen)
            \/ Contains(Text(msg.kind), NeedleReopen)
    THEN error("ConnectionFailed", msg, 0)
    ELSE error("ConnectionFailed", msg, 0)

\* m_connection = make_unique<SerialConnection>(); emit connecting()
RunStart ==
    /\ w.pc = "start"
    /\ Step([w EXCEPT !.pc = "open"], Append(events, connecting), wire, hist,
            "closed", m_isFlashing)

\* m_connection->open(port.path)
OpenPort ==
    /\ w.pc = "open"
    /\ \E o \in OpenOutcomes :
        IF o.threw
        THEN Raise(o.msg)
        ELSE Step([w EXCEPT !.pc = "enterBoot",
                            !.m_currentBaudRate = DEFAULT_BAUD],
                  events, wire, hist, "open", m_isFlashing)

\* isUSBJTAGSerial = port.isESP32C3(); enterBootloaderMode; sleep; flush
EnterBootloader ==
    /\ w.pc = "enterBoot"
    /\ Move([w EXCEPT !.pc = "emitSyncing", !.usb = isESP32C3(w.port),
                      !.ctx = "sync1"])

\* emit syncing(), then syncWithRetry starts with attempt = 1
EmitSyncing ==
    /\ w.pc = "emitSyncing"
    /\ Emit([w EXCEPT !.pc = "sync_write", !.attempt = 1], syncing)

\* performSync: write one SYNC
PerformSyncWrite ==
    /\ w.pc = "sync_write"
    /\ WriteStep(buildSyncCommand, "sync_wait")

\* performSync has returned
AfterPerformSync(f) ==
    LET g == [f EXCEPT !.attempt = 0] IN
    CASE f.ctx = "sync1" ->
           IF f.usb
           THEN [g EXCEPT !.syncSucceeded = TRUE, !.pc = "wd_write",
                          !.ctx = "wd1", !.wd = 1]
           ELSE [g EXCEPT !.syncSucceeded = TRUE, !.pc = AfterSyncPc(f),
                          !.ctx = "none"]
      [] f.ctx = "sync2" ->
           IF f.usb
           THEN [g EXCEPT !.pc = "wd_write", !.ctx = "wd2", !.wd = 1]
           ELSE [g EXCEPT !.pc = AfterSyncPc(f), !.ctx = "none"]
      [] OTHER -> [g EXCEPT !.pc = "spi_write", !.ctx = "none"]

\* performSync: the first response; "Sync failed" unless it is a success
PerformSyncWait ==
    /\ w.pc = "sync_wait"
    /\ \E o \in waitForResponse(Sync, m_isCancelled, m_connection) :
        IF o.threw
        THEN Raise(o.msg)
        ELSE IF ~isSuccess(o.response)
        THEN Raise(Msg("SyncFailed", 0, 0))
        ELSE Answered([w EXCEPT !.pc = "sync_drain", !.drain = 0])

\* performSync: the loop of 7 drain waits, each of which ends in one of the
\* ways of waitForResponse and none of which has an effect (a response is
\* dropped, an exception is ignored); then flush and return
PerformSyncDrain ==
    /\ w.pc = "sync_drain"
    /\ \A i \in 1..SYNC_DRAIN_READS :
           waitForResponse(Sync, m_isCancelled, m_connection) # {}
    /\ Move(AfterPerformSync([w EXCEPT !.drain = SYNC_DRAIN_READS]))

\* a sequence that sets the enable bit of the RTC watchdog
WatchdogCommandSetsEnable(step, regVal) ==
    CASE step = 1 -> buildWriteRegCommand(RTC_WDT_WPROTECT, RTC_WDT_WKEY)
      [] step = 2 -> buildReadRegCommand(RTC_WDT_CONFIG0)
      [] step = 3 -> buildWriteRegCommand(RTC_WDT_CONFIG0,
                                          Or32(regVal, WDT_EN_BIT))
      [] step = 4 -> buildWriteRegCommand(RTC_WDT_WPROTECT, Zero32)
      [] step = 5 -> buildWriteRegCommand(SWD_WPROTECT, SWD_WKEY)
      [] step = 6 -> buildReadRegCommand(SWD_CONF)
      [] step = 7 -> buildWriteRegCommand(SWD_CONF,
                                          Or32(regVal, SWD_AUTO_FEED_EN_BIT))
      [] OTHER -> buildWriteRegCommand(SWD_WPROTECT, Zero32)

\* the register commands of disableWatchdogs, in order
WatchdogCommand(step, regVal) ==
    CASE step = 1 -> buildWriteRegCommand(RTC_WDT_WPROTECT, RTC_WDT_WKEY)
      [] step = 2 -> buildReadRegCommand(RTC_WDT_CONFIG0)
      [] step = 3 -> buildWriteRegCommand(RTC_WDT_CONFIG0,
                                          And32(regVal, Not32(WDT_EN_BIT)))
      [] step = 4 -> buildWriteRegCommand(RTC_WDT_WPROTECT, Zero32)
      [] step = 5 -> buildWriteRegCommand(SWD_WPROTECT, SWD_WKEY)
      [] step = 6 -> buildReadRegCommand(SWD_CONF)
      [] step = 7 -> buildWriteRegCommand(SWD_CONF,
                                          Or32(regVal, SWD_AUTO_FEED_EN_BIT))
      [] OTHER -> buildWriteRegCommand(SWD_WPROTECT, Zero32)

WATCHDOG_COMMANDS == 8

\* readReg / writeReg: write the command
WatchdogWrite ==
    /\ w.pc = "wd_write"
    /\ WriteStep(WatchdogCommand(w.wd, w.regVal), "wd_wait")

\* readReg / writeReg: the response
WatchdogWait ==
    /\ w.pc = "wd_wait"
    /\ LET cmd == WatchdogCommand(w.wd, w.regVal) IN
       \E o \in waitForResponse(cmd.op, m_isCancelled, m_connection) :
        IF o.threw
        THEN Raise(o.msg)
        ELSE IF ~isSuccess(o.response)
        THEN Raise(Msg(IF cmd.op = ReadReg THEN "ReadRegFailed"
                                           ELSE "WriteRegFailed",
                       0, 0))
        ELSE IF w.wd < WATCHDOG_COMMANDS
        THEN Answered([w EXCEPT !.pc = "wd_write", !.wd = w.wd + 1,
                                !.regVal = IF cmd.op = ReadReg
                                           THEN o.response.value ELSE Zero32])
        ELSE Answered([w EXCEPT !.pc = AfterSyncPc(w), !.ctx = "none",
                                !.wd = 0, !.regVal = Zero32])

\* first sync round failed: m_connection->close(); sleep
CloseForReopen ==
    /\ w.pc = "reopenClose"
    /\ Step([w EXCEPT !.pc = "reopen", !.reopen = 1], events, wire, hist,
            "closed", m_isFlashing)

\* a reopen loop that runs once more than it should
ReopenPortOffByOne ==
    /\ w.pc = "reopen"
    /\ \E o \in OpenOutcomes :
        IF ~o.threw
        THEN Step([w EXCEPT !.pc = "emitSyncing", !.ctx = "sync2",
                            !.reopen = 0, !.m_currentBaudRate = DEFAULT_BAUD],
                  events, wire, hist, "open", m_isFlashing)
        ELSE IF w.reopen <= REOPEN_ATTEMPTS
        THEN Move([w EXCEPT !.reopen = w.reopen + 1])
        ELSE Raise(Msg("CouldNotReopen", 0, 0))

\* a reopen path that starts the second round without announcing it
ReopenPortSilent ==
    /\ w.pc = "reopen"
    /\ \E o \in OpenOutcomes :
        IF ~o.threw
        THEN Step([w EXCEPT !.pc = "sync_write", !.ctx = "sync2",
                            !.reopen = 0, !.attempt = 1,
                            !.m_currentBaudRate = DEFAULT_BAUD],
                  events, wire, hist, "open", m_isFlashing)
        ELSE IF w.reopen < REOPEN_ATTEMPTS
        THEN Move([w EXCEPT !.reopen = w.reopen + 1])
        ELSE Raise(Msg("CouldNotReopen", 0, 0))

\* one iteration of the reopen loop; after it, flush and the second round
ReopenPort ==
    /\ w.pc = "reopen"
    /\ \E o \in OpenOutcomes :
        IF ~o.threw
        THEN Step([w EXCEPT !.pc = "emitSyncing", !.ctx = "sync2",
                            !.reopen = 0, !.m_currentBaudRate = DEFAULT_BAUD],
                  events, wire, hist, "open", m_isFlashing)
        ELSE IF w.reopen < REOPEN_ATTEMPTS
        THEN Move([w EXCEPT !.reopen = w.reopen + 1])
        ELSE Raise(Msg("CouldNotReopen", 0, 0))

----------------------------------------------------------------------------
(* The worker: baud change, SPI attach, the image loop, the finish         *)

\* emit changingBaudRate()
EmitChangingBaudRate ==
    /\ w.pc = "emitBaud"
    /\ Emit([w EXCEPT !.pc = "baud_write"], changingBaudRate)

\* changeBaudRate: write CHANGE_BAUDRATE(new, 115200)
ChangeBaudWrite ==
    /\ w.pc = "baud_write"
    /\ WriteStep(buildChangeBaudCommand(w.baudRate, DEFAULT_BAUD), "baud_set")

\* a changeBaudRate that leaves the host at its line speed
SetHostBaudSkipped ==
    /\ w.pc = "baud_set"
    /\ \E o \in SetBaudOutcomes(m_connection) :
        IF o.threw
        THEN Raise(o.msg)
        ELSE Move([w EXCEPT !.pc = "sync_write", !.ctx = "baud"])

\* changeBaudRate: sleep; setBaudRate; sleep; then performSync
SetHostBaud ==
    /\ w.pc = "baud_set"
    /\ \E o \in SetBaudOutcomes(m_connection) :
        IF o.threw
        THEN Raise(o.msg)
        ELSE Move([w EXCEPT !.pc = "sync_write", !.ctx = "baud",
                            !.m_currentBaudRate = w.baudRate])

\* spiAttach: write SPI_ATTACH
SpiAttachWrite ==
    /\ w.pc = "spi_write"
    /\ WriteStep(buildSpiAttachCommand, "spi_wait")

\* the head of the image loop: the next image, or the verify stage
ImageLoopPc(f, img) ==
    IF img <= Len(f.firmware) THEN "img_check" ELSE "emitVerifying"

\* spiAttach: the response; then the image loop starts
SpiAttachWait ==
    /\ w.pc = "spi_wait"
    /\ \E o \in waitForResponse(SpiAttach, m_isCancelled, m_connection) :
        IF o.threw
        THEN Raise(o.msg)
        ELSE IF ~isSuccess(o.response)
        THEN Raise(Msg("SpiAttachFailed", o.response.status, o.response.error))
        ELSE Answered([w EXCEPT !.pc = ImageLoopPc(w, 1), !.img = 1,
                                !.bytesFlashed = 0])

\* the cancellation poll at the top of an image iteration
ImageCheck ==
    /\ w.pc = "img_check"
    /\ IF m_isCancelled
       THEN Raise(Msg("Cancelled", 0, 0))
       ELSE Move([w EXCEPT !.pc = "emitErasing"])

\* emit erasing()
EmitErasing ==
    /\ w.pc = "emitErasing"
    /\ Emit([w EXCEPT !.pc = "begin_write"], erasing)

\* flashBegin: write FLASH_BEGIN(size, numBlocks, blockSize, offset)
FlashBeginWrite ==
    /\ w.pc = "begin_write"
    /\ LET image == w.firmware[w.img] IN
       WriteStep(buildFlashBeginCommand(image.size, NumBlocks(image),
                                        FLASH_BLOCK_SIZE, image.offset),
                 "begin_wait")

\* the image is done: bytesFlashed += image.size(), next image
NextImage(f) ==
    [f EXCEPT !.pc = ImageLoopPc(f, f.img + 1), !.img = f.img + 1,
              !.blockNum = 0,
              !.bytesFlashed = f.bytesFlashed + f.firmware[f.img].size]

\* the head of the block loop with blockNum = k
BlockLoop(f, k) ==
    IF k < NumBlocks(f.firmware[f.img])
    THEN [f EXCEPT !.pc = "blk_check", !.blockNum = k]
    ELSE NextImage(f)

\* flashBegin: the response; then the block loop starts
FlashBeginWait ==
    /\ w.pc = "begin_wait"
    /\ \E o \in waitForResponse(FlashBegin, m_isCancelled, m_connection) :
        IF o.threw
        THEN Raise(o.msg)
        ELSE IF ~isSuccess(o.response)
        THEN Raise(Msg("FlashBeginFailed", o.response.status, 0))
        ELSE Answered(BlockLoop(w, 0))

\* the cancellation poll at the top of a block iteration
BlockCheck ==
    /\ w.pc = "blk_check"
    /\ IF m_isCancelled
       THEN Raise(Msg("Cancelled", 0, 0))
       ELSE Move([w EXCEPT !.pc = "emitFlashing"])

\* a progress that starts again with every image
ProgressPerImage(f) ==
    LET image == f.firmware[f.img]
        n == NumBlocks(image)
    IN <<(f.blockNum + 1) * image.size, n * image.size>>

\* overallProgress as the fraction <<num, den>>
Progress(f) ==
    LET image == f.firmware[f.img]
        n == NumBlocks(image)
    IN <<f.bytesFlashed * n + (f.blockNum + 1) * image.size,
         n * totalSize(f.firmware)>>

\* slice the block, pad it, emit flashing(overallProgress)
EmitFlashing ==
    /\ w.pc = "emitFlashing"
    /\ Emit([w EXCEPT !.pc = "data_write"],
            flashing(Progress(w)[1], Progress(w)[2]))

\* image.data.mid(start, end - start) padded with 0xFF to blockSize
BlockData(f) ==
    LET image == f.firmware[f.img]
        start == f.blockNum * FLASH_BLOCK_SIZE
        end == IF start + FLASH_BLOCK_SIZE < image.size
               THEN start + FLASH_BLOCK_SIZE ELSE image.size
    IN [img |-> f.img, from |-> start, to |-> end,
        pad |-> FLASH_BLOCK_SIZE - (end - start),
        len |-> (end - start) + (FLASH_BLOCK_SIZE - (end - start))]

\* flashData: write FLASH_DATA(block, blockNum)
FlashDataWrite ==
    /\ w.pc = "data_write"
    /\ WriteStep(buildFlashDataCommand(BlockData(w), w.blockNum), "data_wait")

\* a flashData that goes on to the next block whatever the answer says
FlashDataWaitLenient ==
    /\ w.pc = "data_wait"
    /\ \E o \in waitForResponse(FlashData, m_isCancelled, m_connection) :
        IF o.threw
        THEN Raise(o.msg)
        ELSE IF ~isSuccess(o.response)
        THEN Move(BlockLoop(w, w.blockNum + 1))
        ELSE Answered(BlockLoop(w, w.blockNum + 1))

\* a flashData that sends the block again after an error status
FlashDataWaitRetries ==
    /\ w.pc = "data_wait"
    /\ \E o \in waitForResponse(FlashData, m_isCancelled, m_connection) :
        IF o.threw
        THEN Raise(o.msg)
        ELSE IF ~isSuccess(o.response)
        THEN Move([w EXCEPT !.pc = "data_write"])
        ELSE Answered(BlockLoop(w, w.blockNum + 1))

\* flashData: the response; sleep; next block
FlashDataWait ==
    /\ w.pc = "data_wait"
    /\ \E o \in waitForResponse(FlashData, m_isCancelled, m_connection) :
        IF o.threw
        THEN Raise(o.msg)
        ELSE IF ~isSuccess(o.response)
        THEN Raise(Msg("FlashDataFailed", w.blockNum, o.response.status))
        ELSE Answered(BlockLoop(w, w.blockNum + 1))

\* emit verifying(); sleep
EmitVerifying ==
    /\ w.pc = "emitVerifying"
    /\ Emit([w EXCEPT !.pc = "emitRestarting"], verifying)

\* emit restarting()
EmitRestarting ==
    /\ w.pc = "emitRestarting"
    /\ Emit([w EXCEPT !.pc = "end_write"], restarting)

\* runFlashing calls flashEnd(true, isUSBJTAGSerial)
REBOOT == TRUE

\* flashEnd: write FLASH_END
FlashEndWrite ==
    /\ w.pc = "end_write"
    /\ WriteStep(buildFlashEndCommand(REBOOT), "end_wait")

\* flashEnd after its try block
AfterFlashEnd(f, reboot) ==
    [f EXCEPT !.pc = IF reboot /\ f.usb THEN "hardReset" ELSE "emitComplete"]

\* a flashEnd that lets the exception of its wait through
FlashEndWaitStrict ==
    /\ w.pc = "end_wait"
    /\ \E o \in waitForResponse(FlashEnd, m_isCancelled, m_connection) :
        IF o.threw
        THEN Raise(o.msg)
        ELSE IF ~isSuccess(o.response) /\ ~REBOOT
        THEN Raise(Msg("FlashEndFailed", 0, 0))
        ELSE IF isSuccess(o.response)
        THEN Answered(AfterFlashEnd(w, REBOOT))
        ELSE Move(AfterFlashEnd(w, REBOOT))

\* flashEnd: the response; with reboot every exception is swallowed
FlashEndWait ==
    /\ w.pc = "end_wait"
    /\ \E o \in waitForResponse(FlashEnd, m_isCancelled, m_connection) :
        IF o.threw
        THEN IF REBOOT THEN Move(AfterFlashEnd(w, REBOOT)) ELSE Raise(o.msg)
        ELSE IF ~isSuccess(o.response) /\ ~REBOOT
        THEN Raise(Msg("FlashEndFailed", 0, 0))
        ELSE IF isSuccess(o.response)
        THEN Answered(AfterFlashEnd(w, REBOOT))
        ELSE Move(AfterFlashEnd(w, REBOOT))

\* m_connection->hardReset()
HardReset ==
    /\ w.pc = "hardReset"
    /\ IF m_connection # "open"
       THEN Raise(Msg("NotConnected", 0, 0))
       ELSE Move([w EXCEPT !.pc = "emitComplete"])

\* sleep; emit complete()
EmitComplete ==
    /\ w.pc = "emitComplete"
    /\ Emit([w EXCEPT !.pc = "cleanupOk"], complete)

\* cleanup(); emit finished(true)
CleanupOk ==
    /\ w.pc = "cleanupOk"
    /\ Cleanup([w EXCEPT !.pc = "done"], hist)

\* the outer handler after cleanup(): emit stateChanged(error(...)), emit
\* finished(false)
EmitError ==
    /\ w.pc = "emitError"
    /\ Emit([w EXCEPT !.pc = "done"], ErrorEvent(w.msg, m_isCancelled))

\* the same, by the worker of an earlier run
TailEmitError ==
    \E t \in tails :
        /\ t.pc = "emitError"
        /\ tails' = (tails \ {t})
                    \cup {[t EXCEPT !.pc = "done",
                                    !.events = Append(@, ErrorEvent(t.msg,
                                                             m_isCancelled))]}
        /\ overlap' = IF \E u \in tails \ {t} : u.pc # "done"
                      THEN overlap ELSE 0
        /\ rejected' = FALSE
        /\ UNCHANGED <<m_isFlashing, m_isCancelled, m_connection, txFull, w,
                       events, wire, hist, runs, apart>>

----------------------------------------------------------------------------
Next ==
    \/ \E firmware \in Bundles, port \in Descriptors, baudRate \in BaudRates :
           Flash(firmware, port, baudRate)
    \/ Cancel
    \/ TxStall
    \/ TxDrain
    \/ RunStart
    \/ OpenPort
    \/ EnterBootloader
    \/ EmitSyncing
    \/ PerformSyncWrite
    \/ PerformSyncWait
    \/ PerformSyncDrain
    \/ WatchdogWrite
    \/ WatchdogWait
    \/ CloseForReopen
    \/ ReopenPort
    \/ EmitChangingBaudRate
    \/ ChangeBaudWrite
    \/ SetHostBaud
    \/ SpiAttachWrite
    \/ SpiAttachWait
    \/ ImageCheck
    \/ EmitErasing
    \/ FlashBeginWrite
    \/ FlashBeginWait
    \/ BlockCheck
    \/ EmitFlashing
    \/ FlashDataWrite
    \/ FlashDataWait
    \/ EmitVerifying
    \/ EmitRestarting
    \/ FlashEndWrite
    \/ FlashEndWait
    \/ HardReset
    \/ EmitComplete
    \/ CleanupOk
    \/ EmitError
    \/ TailEmitError

Spec == Init /\ [][Next]_vars

----------------------------------------------------------------------------
(* Scheduling.  A thread that can take a step takes one in the end: the    *)
(* current worker, and the worker of an earlier run that has still to emit *)
(* its Error.  Nothing is assumed of the UI thread or of the device.       *)

Worker ==
    \/ RunStart \/ OpenPort \/ EnterBootloader \/ EmitSyncing
    \/ PerformSyncWrite \/ PerformSyncWait \/ PerformSyncDrain
    \/ WatchdogWrite \/ WatchdogWait \/ CloseForReopen \/ ReopenPort
    \/ EmitChangingBaudRate \/ ChangeBaudWrite \/ SetHostBaud
    \/ SpiAttachWrite \/ SpiAttachWait \/ ImageCheck \/ EmitErasing
    \/ FlashBeginWrite \/ FlashBeginWait \/ BlockCheck \/ EmitFlashing
    \/ FlashDataWrite \/ FlashDataWait \/ EmitVerifying \/ EmitRestarting
    \/ FlashEndWrite \/ FlashEndWait \/ HardReset \/ EmitComplete
    \/ CleanupOk \/ EmitError

LiveSpec == Spec /\ WF_vars(Worker) /\ WF_vars(TailEmitError)

----------------------------------------------------------------------------
(* SLIP framing: SLIPCodec::encode, SLIPCodec::decode and the streaming    *)
(* SLIPDecoder.  A byte is a number in 0..255; a QByteArray is a sequence  *)
(* of bytes, and a null QByteArray is the empty one (isEmpty() holds of    *)
(* both, and == does not tell them apart).                                 *)

FRAME_END == 192
FRAME_ESCAPE == 219
ESCAPED_END == 220
ESCAPED_ESCAPE == 221

\* longest byte sequence given to the codec
MaxLen == 4

\* the four bytes the codec treats specially, and one it does not
SlipBytes == {FRAME_END, FRAME_ESCAPE, ESCAPED_END, ESCAPED_ESCAPE, 1}

ByteSeqs == UNION {[1..n -> SlipBytes] : n \in 0..MaxLen}

\* encode: the switch on one byte of the data
Escaped(byte) ==
    CASE byte = FRAME_END -> <<FRAME_ESCAPE, ESCAPED_END>>
      [] byte = FRAME_ESCAPE -> <<FRAME_ESCAPE, ESCAPED_ESCAPE>>
      [] OTHER -> <<byte>>

RECURSIVE EncodeFrom(_, _)
\* encode: the loop over the data from index i
EncodeFrom(bytes, i) ==
    IF i > Len(bytes)
    THEN <<>>
    ELSE Escaped(bytes[i]) \o EncodeFrom(bytes, i + 1)

\* SLIPCodec::encode
encode(bytes) == <<FRAME_END>> \o EncodeFrom(bytes, 1) \o <<FRAME_END>>

\* the byte that follows a FRAME_ESCAPE, as both decoders read it
Unescaped(byte) ==
    CASE byte = ESCAPED_END -> FRAME_END
      [] byte = ESCAPED_ESCAPE -> FRAME_ESCAPE
      [] OTHER -> byte

RECURSIVE decodeLoopKeepsEscapes(_, _, _, _, _)
\* a decode loop that takes the byte after a FRAME_ESCAPE as it comes
decodeLoopKeepsEscapes(bytes, i, out, inEscape, started) ==
    IF i > Len(bytes)
    THEN out
    ELSE IF bytes[i] = FRAME_END
    THEN IF started /\ out # <<>>
         THEN out
         ELSE decodeLoopKeepsEscapes(bytes, i + 1, <<>>, inEscape, TRUE)
    ELSE IF ~started
    THEN decodeLoopKeepsEscapes(bytes, i + 1, out, inEscape, started)
    ELSE IF inEscape
    THEN decodeLoopKeepsEscapes(bytes, i + 1, Append(out, bytes[i]), FALSE,
                                started)
    ELSE IF bytes[i] = FRAME_ESCAPE
    THEN decodeLoopKeepsEscapes(bytes, i + 1, out, TRUE, started)
    ELSE decodeLoopKeepsEscapes(bytes, i + 1, Append(out, bytes[i]), FALSE,
                                started)

RECURSIVE decodeLoop(_, _, _, _, _)
\* decode: the loop over the packet from index i, with the locals decoded
\* (out), inEscape and started
decodeLoop(bytes, i, out, inEscape, started) ==
    IF i > Len(bytes)
    THEN out
    ELSE IF bytes[i] = FRAME_END
    THEN IF started /\ out # <<>>
         THEN out
         ELSE decodeLoop(bytes, i + 1, <<>>, inEscape, TRUE)
    ELSE IF ~started
    THEN decodeLoop(bytes, i + 1, out, inEscape, started)
    ELSE IF inEscape
    THEN decodeLoop(bytes, i + 1, Append(out, Unescaped(bytes[i])), FALSE,
                    started)
    ELSE IF bytes[i] = FRAME_ESCAPE
    THEN decodeLoop(bytes, i + 1, out, TRUE, started)
    ELSE decodeLoop(bytes, i + 1, Append(out, bytes[i]), FALSE, started)

\* SLIPCodec::decode
decode(bytes) == decodeLoop(bytes, 1, <<>>, FALSE, FALSE)

\* the decoder's members and the packet a call of processByte returns
DecoderStep(packet, buffer, inEscape, packetStarted) ==
    [packet |-> packet, m_buffer |-> buffer, m_inEscape |-> inEscape,
     m_packetStarted |-> packetStarted]

\* a processByte that leaves m_inEscape set after the escaped byte
processByteStickyEscape(byte, buffer, inEscape, packetStarted) ==
    CASE byte = FRAME_END ->
           IF packetStarted /\ buffer # <<>>
           THEN DecoderStep(buffer, <<>>, FALSE, FALSE)
           ELSE DecoderStep(<<>>, <<>>, inEscape, TRUE)
      [] byte = FRAME_ESCAPE ->
           IF ~packetStarted
           THEN DecoderStep(<<>>, buffer, inEscape, packetStarted)
           ELSE DecoderStep(<<>>, buffer, TRUE, packetStarted)
      [] OTHER ->
           IF ~packetStarted
           THEN DecoderStep(<<>>, buffer, inEscape, packetStarted)
           ELSE IF inEscape
           THEN DecoderStep(<<>>, Append(buffer, Unescaped(byte)), TRUE,
                            packetStarted)
           ELSE DecoderStep(<<>>, Append(buffer, byte), inEscape,
                            packetStarted)

\* a processByte that drops the byte of an invalid escape
processByteDropsInvalid(byte, buffer, inEscape, packetStarted) ==
    CASE byte = FRAME_END ->
           IF packetStarted /\ buffer # <<>>
           THEN DecoderStep(buffer, <<>>, FALSE, FALSE)
           ELSE DecoderStep(<<>>, <<>>, inEscape, TRUE)
      [] byte = FRAME_ESCAPE ->
           IF ~packetStarted
           THEN DecoderStep(<<>>, buffer, inEscape, packetStarted)
           ELSE DecoderStep(<<>>, buffer, TRUE, packetStarted)
      [] OTHER ->
           IF ~packetStarted
           THEN DecoderStep(<<>>, buffer, inEscape, packetStarted)
           ELSE IF inEscape
           THEN DecoderStep(<<>>,
                            IF byte \in {ESCAPED_END, ESCAPED_ESCAPE}
                            THEN Append(buffer, Unescaped(byte))
                            ELSE buffer,
                            FALSE, packetStarted)
           ELSE DecoderStep(<<>>, Append(buffer, byte), inEscape,
                            packetStarted)

\* SLIPDecoder::processByte (reset() included)
processByte(byte, buffer, inEscape, packetStarted) ==
    CASE byte = FRAME_END ->
           IF packetStarted /\ buffer # <<>>
           THEN DecoderStep(buffer, <<>>, FALSE, FALSE)
           ELSE DecoderStep(<<>>, <<>>, inEscape, TRUE)
      [] byte = FRAME_ESCAPE ->
           IF ~packetStarted
           THEN DecoderStep(<<>>, buffer, inEscape, packetStarted)
           ELSE DecoderStep(<<>>, buffer, TRUE, packetStarted)
      [] OTHER ->
           IF ~packetStarted
           THEN DecoderStep(<<>>, buffer, inEscape, packetStarted)
           ELSE IF inEscape
           THEN DecoderStep(<<>>, Append(buffer, Unescaped(byte)), FALSE,
                            packetStarted)
           ELSE DecoderStep(<<>>, Append(buffer, byte), inEscape,
                            packetStarted)

\* any byte sequence may be handed to the codec
CodecInit ==
    /\ ServiceInit
    /\ rawData \in ByteSeqs
    /\ SlipInit
    /\ NoCall
    /\ NoSerial
    /\ NoWidget
    /\ NoLines

\* slipPacket = SLIPCodec::encode(rawData)
Encode ==
    /\ slipPacket = {}
    /\ feed = {}
    /\ slipPacket' = {encode(rawData)}
    /\ UNCHANGED <<rawData, decoded, m_buffer, m_inEscape, m_packetStarted, feed,
                   packets, beyondCodec>>

\* decoded = SLIPCodec::decode(slipPacket)
Decode ==
    /\ decoded = {}
    /\ \E p \in slipPacket : decoded' = {decode(p)}
    /\ UNCHANGED <<rawData, slipPacket, m_buffer, m_inEscape, m_packetStarted,
                   feed, packets, beyondCodec>>

\* SLIPDecoder::process is called on a fresh decoder: with the encoded
\* packet if there is one, else with the bytes as they are
ProcessCall ==
    /\ feed = {}
    /\ feed' = IF slipPacket = {} THEN {rawData} ELSE slipPacket
    /\ UNCHANGED <<rawData, slipPacket, decoded, m_buffer, m_inEscape,
                   m_packetStarted, packets, beyondCodec>>

\* a process loop that collects whatever processByte returns
ProcessUnfiltered ==
    \E rest \in feed :
        /\ rest # <<>>
        /\ LET r == processByte(Head(rest), m_buffer, m_inEscape,
                                m_packetStarted)
           IN /\ m_buffer' = r.m_buffer
              /\ m_inEscape' = r.m_inEscape
              /\ m_packetStarted' = r.m_packetStarted
              /\ packets' = Append(packets, r.packet)
        /\ feed' = {Tail(rest)}
        /\ UNCHANGED <<rawData, slipPacket, decoded, beyondCodec>>

\* SLIPDecoder::process: one iteration of its loop
Process ==
    \E rest \in feed :
        /\ rest # <<>>
        /\ LET r == processByte(Head(rest), m_buffer, m_inEscape,
                                m_packetStarted)
           IN /\ m_buffer' = r.m_buffer
              /\ m_inEscape' = r.m_inEscape
              /\ m_packetStarted' = r.m_packetStarted
              /\ packets' = IF r.packet # <<>>
                            THEN Append(packets, r.packet)
                            ELSE packets
        /\ feed' = {Tail(rest)}
        /\ UNCHANGED <<rawData, slipPacket, decoded, beyondCodec>>

CodecNext ==
    \/ Encode
    \/ Decode
    \/ ProcessCall
    \/ Process

CodecSpec == CodecInit /\ [][CodecNext]_vars

----------------------------------------------------------------------------
(* The packet layer: ESP32Protocol::calculateChecksum, buildPacket and the *)
(* command builders at the level of bytes, and ESP32Response::parse.  A    *)
(* call is made with arguments drawn at the start (arg) and its return     *)
(* value is kept (ret).                                                    *)

CHECKSUM_SEED == 239
REQUEST == 0
RESPONSE == 1
HEADER_SIZE == 8

\* longest data section of a response handed to parse
MaxData == 3

RECURSIVE BitXor(_, _)
\* operator ^ on unsigned values
BitXor(a, b) ==
    IF a = 0 /\ b = 0
    THEN 0
    ELSE ((a + b) % 2) + 2 * BitXor(a \div 2, b \div 2)

RECURSIVE checksumLoop(_, _, _, _)
\* calculateChecksum: the iterations i..last of the loop, with the uint8_t
\* accumulator.  A range of more than one iteration is run as its first
\* half and then its second half, so that a block of FLASH_BLOCK_SIZE bytes
\* is summed without deep nesting (the look at the accumulator's range
\* makes the first half be evaluated before the second is entered)
checksumLoop(bytes, i, last, checksum) ==
    IF i > last
    THEN checksum
    ELSE IF i = last
    THEN BitXor(checksum, bytes[i]) % 256
    ELSE LET half == checksumLoop(bytes, i, (i + last) \div 2, checksum)
         IN IF half \in 0..255
            THEN checksumLoop(bytes, (i + last) \div 2 + 1, last, half)
            ELSE half

\* calculateChecksum: the loop from index i to the end of the data
checksumFrom(bytes, i, checksum) == checksumLoop(bytes, i, Len(bytes), checksum)

\* a checksum that starts from zero
calculateChecksumUnseeded(bytes) == checksumFrom(bytes, 1, 0)

\* ESP32Protocol::calculateChecksum
calculateChecksum(bytes) == checksumFrom(bytes, 1, CHECKSUM_SEED)

\* appendLE16 of a uint16_t
appendLE16(value) == <<value % 256, (value \div 256) % 256>>

\* appendLE32 of a uint32_t kept as its two halves
appendLE32(x) == appendLE16(x[2]) \o appendLE16(x[1])

\* an int or uint32_t argument below 2^31 as its two halves
As32(n) == W32(n \div 65536, n % 65536)

\* a packet whose length field is written high byte first
buildPacketBigEndian(command, payload, checksum) ==
    <<REQUEST, command>>
    \o <<((Len(payload) % 65536) \div 256) % 256,
          (Len(payload) % 65536) % 256>>
    \o appendLE32(checksum)
    \o payload

\* buildPacket: direction, opcode, size as uint16_t, checksum, payload
buildPacket(command, payload, checksum) ==
    <<REQUEST, command>>
    \o appendLE16(Len(payload) % 65536)
    \o appendLE32(checksum)
    \o payload

\* buildSyncCommand: 07 07 12 20 and 32 times 0x55
SyncPayload == <<7, 7, 18, 32>> \o [i \in 1..32 |-> 85]

\* the 32-bit words a builder appends, in order
Words(frame) ==
    CASE frame.op \in {ReadReg, WriteReg} -> frame.args
      [] frame.op = FlashData -> [i \in 1..4 |-> As32(frame.args[i])]
      [] OTHER -> [i \in 1..Len(frame.args) |-> As32(frame.args[i])]

RECURSIVE AppendWords(_, _)
AppendWords(words, i) ==
    IF i > Len(words)
    THEN <<>>
    ELSE appendLE32(words[i]) \o AppendWords(words, i + 1)

\* the payload a builder hands to buildPacket
Payload(frame) ==
    CASE frame.op = Sync -> SyncPayload
      [] frame.op = FlashData ->
           AppendWords(Words(frame), 1) \o frame.args[5].bytes
      [] OTHER -> AppendWords(Words(frame), 1)

\* the bytes of a command: buildFlashDataCommand passes the checksum of the
\* block, every other builder leaves it at its default 0
Packet(frame) ==
    buildPacket(frame.op, Payload(frame),
                IF frame.op = FlashData
                THEN As32(calculateChecksum(frame.args[5].bytes))
                ELSE Zero32)

readLE16(bytes, offset) == bytes[offset + 1] + 256 * bytes[offset + 2]

\* a uint32_t read low byte first, kept as its two halves
readLE32(bytes, offset) ==
    W32(readLE16(bytes, offset + 2), readLE16(bytes, offset))

\* QByteArray::mid(pos, len) with 0 <= pos <= size
Mid(bytes, pos, len) ==
    SubSeq(bytes, pos + 1,
           IF pos + len < Len(bytes) THEN pos + len ELSE Len(bytes))

Min(a, b) == IF a < b THEN a ELSE b

\* the fields of an ESP32Response, from its data section on
Parsed(bytes, section, status, err) ==
    [direction |-> bytes[1], command |-> bytes[2],
     size |-> readLE16(bytes, 2), value |-> readLE32(bytes, 4),
     data |-> section, status |-> status, error |-> err]

\* a parse that takes the status bytes from the end of the data section
parseStatusAtEnd(bytes) ==
    IF Len(bytes) < HEADER_SIZE
    THEN {}
    ELSE IF bytes[1] # RESPONSE
    THEN {}
    ELSE LET dataEndIndex == Min(HEADER_SIZE + readLE16(bytes, 2), Len(bytes))
             section == IF Len(bytes) > HEADER_SIZE
                        THEN Mid(bytes, HEADER_SIZE, dataEndIndex - HEADER_SIZE)
                        ELSE <<>>
         IN {Parsed(bytes, section,
                    IF Len(section) >= 2 THEN section[Len(section) - 1] ELSE 0,
                    IF Len(section) >= 2 THEN section[Len(section)] ELSE 0)}

\* ESP32Response::parse; the optional it returns is {} or {response}
parse(bytes) ==
    IF Len(bytes) < HEADER_SIZE
    THEN {}
    ELSE IF bytes[1] # RESPONSE
    THEN {}
    ELSE LET dataEndIndex == Min(HEADER_SIZE + readLE16(bytes, 2), Len(bytes))
             section == IF Len(bytes) > HEADER_SIZE
                        THEN Mid(bytes, HEADER_SIZE, dataEndIndex - HEADER_SIZE)
                        ELSE <<>>
         IN {Parsed(bytes, section,
                    IF Len(section) >= 1 THEN section[1] ELSE 0,
                    IF Len(section) >= 2 THEN section[2] ELSE 0)}

\* the bytes that are summed
SumBytes == {0, 1, 85, CHECKSUM_SEED, 255}

BlockSeqs == UNION {[1..n -> SumBytes] : n \in 0..MaxLen}

\* a block of FLASH_BLOCK_SIZE zero bytes
ZeroBlock == [i \in 1..FLASH_BLOCK_SIZE |-> 0]

\* a block as buildFlashDataCommand takes it
Block(bytes) == [len |-> Len(bytes), bytes |-> bytes]

\* the commands that are built
Commands ==
    {buildSyncCommand, buildSpiAttachCommand}
    \cup {buildReadRegCommand(a) : a \in {RTC_WDT_CONFIG0, SWD_CONF}}
    \cup {buildWriteRegCommand(a, v) :
              a \in {RTC_WDT_WPROTECT, SWD_CONF}, v \in {RTC_WDT_WKEY, Zero32}}
    \cup {buildChangeBaudCommand(n, DEFAULT_BAUD) : n \in BaudRates}
    \cup {buildFlashBeginCommand(i.size, NumBlocks(i), FLASH_BLOCK_SIZE,
                                 i.offset) :
              i \in {Image(0, 1500), Image(65536, 4000)}}
    \cup {buildFlashDataCommand(Block(b), n) :
              b \in BlockSeqs \cup {ZeroBlock}, n \in {0, 3}}
    \cup {buildFlashEndCommand(r) : r \in BOOLEAN}

\* frames handed to parse: a header of any direction, a size field that
\* may be larger or smaller than the data section, and every prefix of it
ResponseFrames ==
    LET sections == UNION {[1..n -> {0, 1, 5}] : n \in 0..MaxData}
        full == {<<d, Sync>> \o appendLE16(s) \o appendLE32(v) \o x :
                     d \in {REQUEST, RESPONSE, 2}, s \in {0, 1, 2, 3, 258},
                     v \in {Zero32, W32(32768, 5)}, x \in sections}
    IN UNION {{SubSeq(f, 1, n) : n \in 0..Len(f)} : f \in full}

\* the calls that are made, each with its argument under the parameter's
\* name
ChecksumCall(bytes) == [fn |-> "calculateChecksum", data |-> bytes]
BuildCall(frame) == [fn |-> "build", command |-> frame]
ParseCall(bytes) == [fn |-> "parse", packet |-> bytes]

PacketInit ==
    /\ ServiceInit
    /\ CodecIdle
    /\ NoSerial
    /\ NoWidget
    /\ NoLines
    /\ arg \in {ChecksumCall(b) : b \in BlockSeqs \cup {ZeroBlock}}
               \cup {BuildCall(c) : c \in Commands}
               \cup {ParseCall(f) : f \in ResponseFrames}
    /\ ret = {}

\* ret = calculateChecksum(data)
CalculateChecksum ==
    /\ arg.fn = "calculateChecksum"
    /\ ret = {}
    /\ ret' = {calculateChecksum(arg.data)}
    /\ UNCHANGED <<arg, beyondPacket>>

\* ret = build...Command(...)
BuildCommand ==
    /\ arg.fn = "build"
    /\ ret = {}
    /\ ret' = {Packet(arg.command)}
    /\ UNCHANGED <<arg, beyondPacket>>

\* ret = ESP32Response::parse(packet)
Parse ==
    /\ arg.fn = "parse"
    /\ ret = {}
    /\ ret' = {parse(arg.packet)}
    /\ UNCHANGED <<arg, beyondPacket>>

PacketNext ==
    \/ CalculateChecksum
    \/ BuildCommand
    \/ Parse

PacketSpec == PacketInit /\ [][PacketNext]_vars

----------------------------------------------------------------------------
(* SerialConnection::open and close, and the advisory lock on the device   *)
(* file.  Every SerialConnection is opened by its one owner: the flashing  *)
(* worker, the live output viewer (SerialMonitorWidget), and a             *)
(* SerialConnection of another process.  Each owner opens a connection     *)
(* that is not open (runFlashing and connectToPort open a new or a closed  *)
(* one).  flock(LOCK_EX | LOCK_NB) is granted iff no other open file       *)
(* description holds a lock on the file.                                   *)

Connections == {"worker", "viewer", "other"}

DevicePaths == {"ttyACM0", "ttyUSB0"}

\* m_fd < 0
NoFd == "none"

isConnected(c) == m_fd[c] # NoFd

\* no connection is open and no lock is held
SerialInit ==
    /\ m_fd = [c \in Connections |-> NoFd]
    /\ opening = {}
    /\ flocks = [p \in DevicePaths |-> {}]
    /\ outcome = [c \in Connections |-> "none"]
    /\ released = [p \in DevicePaths |-> FALSE]

LockInit ==
    /\ ServiceInit
    /\ CodecIdle
    /\ NoCall
    /\ SerialInit
    /\ NoWidget
    /\ NoLines

\* open: m_fd = ::open(path); CannotOpen if that fails
OpenFile(c, path) ==
    /\ ~isConnected(c)
    /\ c \notin opening
    /\ \/ /\ m_fd' = [m_fd EXCEPT ![c] = path]
          /\ opening' = opening \cup {c}
          /\ UNCHANGED outcome
       \/ /\ outcome' = [outcome EXCEPT ![c] = "CannotOpen"]
          /\ UNCHANGED <<m_fd, opening>>
    /\ UNCHANGED <<flocks, released, beyondSerial>>

\* an open that goes on whatever flock answers
OpenLockUnchecked(c) ==
    /\ c \in opening
    /\ opening' = opening \ {c}
    /\ flocks' = IF flocks[m_fd[c]] = {}
                 THEN [flocks EXCEPT ![m_fd[c]] = {c}]
                 ELSE flocks
    /\ outcome' = [outcome EXCEPT ![c] = "opened"]
    /\ UNCHANGED <<m_fd, released, beyondSerial>>

\* open: flock(m_fd, LOCK_EX | LOCK_NB); if it is refused, ::close, m_fd =
\* -1 and CannotOpen; else the terminal settings, and open returns
OpenLock(c) ==
    /\ c \in opening
    /\ opening' = opening \ {c}
    /\ IF flocks[m_fd[c]] = {}
       THEN /\ flocks' = [flocks EXCEPT ![m_fd[c]] = {c}]
            /\ outcome' = [outcome EXCEPT ![c] = "opened"]
            /\ UNCHANGED m_fd
       ELSE /\ m_fd' = [m_fd EXCEPT ![c] = NoFd]
            /\ outcome' = [outcome EXCEPT ![c] = "CannotOpen"]
            /\ UNCHANGED flocks
    /\ UNCHANGED <<released, beyondSerial>>

\* close: flock(m_fd, LOCK_UN); ::close(m_fd); m_fd = -1
Close(c) ==
    /\ isConnected(c)
    /\ c \notin opening
    /\ flocks' = [flocks EXCEPT ![m_fd[c]] = @ \ {c}]
    /\ released' = [released EXCEPT ![m_fd[c]] = @ \/ c \in flocks[m_fd[c]]]
    /\ m_fd' = [m_fd EXCEPT ![c] = NoFd]
    /\ UNCHANGED <<opening, outcome, beyondSerial>>

LockNext ==
    \/ \E c \in Connections, path \in DevicePaths : OpenFile(c, path)
    \/ \E c \in Connections : OpenLock(c)
    \/ \E c \in Connections : Close(c)

LockSpec == LockInit /\ [][LockNext]_vars

----------------------------------------------------------------------------
(* Firmware bundles: FirmwareFile::fromPlatformIOBuild, the constructor    *)
(* from images and isComplete.  A directory is what QFile::exists and      *)
(* QFile::open answer for each of its names; of a file that was read the   *)
(* bundle keeps its size and its offset.                                   *)

\* fromPlatformIOBuild: the table of file names and flash offsets
fileOffsets ==
    <<[name |-> "bootloader.bin", offset |-> 0],
      [name |-> "partitions.bin", offset |-> 32768],
      [name |-> "firmware.bin", offset |-> 65536]>>

\* what a directory can hold under one name: nothing, a file that cannot
\* be opened for reading, a file that can
DirEntries ==
    {[exists |-> FALSE, opens |-> FALSE, size |-> 0],
     [exists |-> TRUE, opens |-> FALSE, size |-> 0],
     [exists |-> TRUE, opens |-> TRUE, size |-> 0],
     [exists |-> TRUE, opens |-> TRUE, size |-> 2048]}

FileNames == {"bootloader.bin", "partitions.bin", "firmware.bin", "notes.txt"}

Directories == [FileNames -> DirEntries]

RECURSIVE ReadImages(_, _)
\* fromPlatformIOBuild: the loop over fileOffsets from index i
ReadImages(dir, i) ==
    IF i > Len(fileOffsets)
    THEN <<>>
    ELSE LET fo == fileOffsets[i] IN
         IF dir[fo.name].exists /\ dir[fo.name].opens
         THEN <<Image(fo.offset, dir[fo.name].size)>> \o ReadImages(dir, i + 1)
         ELSE ReadImages(dir, i + 1)

RECURSIVE SortByOffset(_)
\* std::sort with a.offset < b.offset
SortByOffset(images) ==
    IF images = <<>>
    THEN <<>>
    ELSE LET least == CHOOSE i \in 1..Len(images) :
                          \A j \in 1..Len(images) :
                              images[i].offset <= images[j].offset
         IN <<images[least]>>
            \o SortByOffset([k \in 1..(Len(images) - 1) |->
                                 IF k < least THEN images[k]
                                              ELSE images[k + 1]])

\* FirmwareFile::FirmwareFile(images)
FirmwareFile(images) == SortByOffset(images)

\* FirmwareFile::isComplete
isComplete(images) ==
    /\ \E i \in 1..Len(images) : images[i].offset = 0
    /\ \E i \in 1..Len(images) : images[i].offset = 32768
    /\ \E i \in 1..Len(images) : images[i].offset = 65536

\* FirmwareFile::fromPlatformIOBuild: the error it throws, or the bundle
fromPlatformIOBuild(dir) ==
    LET images == ReadImages(dir, 1) IN
    IF images = <<>>
    THEN [error |-> "NoFilesFound"]
    ELSE IF ~\E i \in 1..Len(images) : images[i].offset = 65536
    THEN [error |-> "MissingFirmware"]
    ELSE [images |-> FirmwareFile(images)]

BundleCall(dir) == [fn |-> "fromPlatformIOBuild", dirPath |-> dir]

BundleInit ==
    /\ ServiceInit
    /\ CodecIdle
    /\ NoSerial
    /\ NoWidget
    /\ NoLines
    /\ arg \in {BundleCall(dir) : dir \in Directories}
    /\ ret = {}

\* ret = FirmwareFile::fromPlatformIOBuild(dirPath)
FromPlatformIOBuild ==
    /\ arg.fn = "fromPlatformIOBuild"
    /\ ret = {}
    /\ ret' = {fromPlatformIOBuild(arg.dirPath)}
    /\ UNCHANGED <<arg, beyondPacket>>

BundleNext == FromPlatformIOBuild

BundleSpec == BundleInit /\ [][BundleNext]_vars

----------------------------------------------------------------------------
(* The block loop of runFlashing at the level of bytes: one image, its     *)
(* FLASH_BEGIN and its FLASH_DATA frames as they are handed to write(),    *)
(* every command answered successfully.  ret holds the frames so far.      *)

\* an image with its bytes
ImageOf(offset, bytes) ==
    [offset |-> offset, size |-> Len(bytes), data |-> bytes]

\* image sizes around the block size
ImageSizes == {0, 1, 1023, 1024, 1025, 2048, 2049, 3000}

\* image contents: all 0x00, all 0xFF, or 0x00, 0x01, ... 0xFF repeated
ImageFills == {"zero", "ff", "ramp"}

FilledBytes(size, fill) ==
    [i \in 1..size |->
        CASE fill = "zero" -> 0
          [] fill = "ff" -> 255
          [] OTHER -> (i - 1) % 256]

ByteImages ==
    {ImageOf(offset, FilledBytes(size, fill)) :
        offset \in {0, 65536}, size \in ImageSizes, fill \in ImageFills}

\* a last block that is filled up with zeros
PaddedBlockZeroFill(image, blockNum) ==
    LET start == blockNum * FLASH_BLOCK_SIZE
        end == Min(start + FLASH_BLOCK_SIZE, image.size)
        blockData == Mid(image.data, start, end - start)
    IN IF Len(blockData) < FLASH_BLOCK_SIZE
       THEN blockData \o [i \in 1..(FLASH_BLOCK_SIZE - Len(blockData)) |-> 0]
       ELSE blockData

\* blockData = image.data.mid(start, end - start), filled up with 0xFF
PaddedBlock(image, blockNum) ==
    LET start == blockNum * FLASH_BLOCK_SIZE
        end == Min(start + FLASH_BLOCK_SIZE, image.size)
        blockData == Mid(image.data, start, end - start)
    IN IF Len(blockData) < FLASH_BLOCK_SIZE
       THEN blockData \o [i \in 1..(FLASH_BLOCK_SIZE - Len(blockData)) |-> 255]
       ELSE blockData

ImageCall(image) == [fn |-> "flashImage", image |-> image]

SliceInit ==
    /\ ServiceInit
    /\ CodecIdle
    /\ NoSerial
    /\ NoWidget
    /\ NoLines
    /\ arg \in {ImageCall(image) : image \in ByteImages}
    /\ ret = {}

\* numBlocks; flashBegin(image.size(), numBlocks, blockSize, image.offset)
FlashImageBegin ==
    /\ arg.fn = "flashImage"
    /\ ret = {}
    /\ ret' = {<<buildFlashBeginCommand(arg.image.size, NumBlocks(arg.image),
                                        FLASH_BLOCK_SIZE, arg.image.offset)>>}
    /\ UNCHANGED <<arg, beyondPacket>>

\* one iteration of the block loop: flashData(blockData, blockNum)
FlashImageBlock ==
    /\ arg.fn = "flashImage"
    /\ \E frames \in ret :
        LET blockNum == Len(frames) - 1 IN
        /\ blockNum < NumBlocks(arg.image)
        /\ ret' = {Append(frames,
                          buildFlashDataCommand(
                              Block(PaddedBlock(arg.image, blockNum)),
                              blockNum))}
    /\ UNCHANGED <<arg, beyondPacket>>

SliceNext ==
    \/ FlashImageBegin
    \/ FlashImageBlock

SliceSpec == SliceInit /\ [][SliceNext]_vars

----------------------------------------------------------------------------
(* One call of syncWithRetry, attempt by attempt and drain wait by drain   *)
(* wait.  Here wire holds every SYNC frame that was written, hist counts   *)
(* the write() calls that failed, and ret holds how the call ended.  The   *)
(* UI thread may call cancel() at any time.                                *)

\* what a call of syncWithRetry leaves alone
beyondSync ==
    <<m_isFlashing, m_connection, txFull, events, tails, runs, rejected,
      overlap, slipVars, arg, serialVars, widgetVars, lineVars>>

SyncCall == [fn |-> "syncWithRetry"]

\* the worker has opened the port and calls syncWithRetry
SyncInit ==
    /\ m_isFlashing = TRUE
    /\ m_isCancelled \in BOOLEAN
    /\ m_connection = "open"
    /\ txFull = FALSE
    /\ w = [IdleFrame EXCEPT !.pc = "sync_write", !.ctx = "sync1",
                             !.attempt = 1]
    /\ events = <<>>
    /\ wire = <<>>
    /\ hist = [writeFailures |-> 0]
    /\ tails = {}
    /\ runs = 1
    /\ rejected = FALSE
    /\ overlap = 0
    /\ CodecIdle
    /\ NoSerial
    /\ NoWidget
    /\ NoLines
    /\ arg = SyncCall
    /\ ret = {}

\* a syncWithRetry that gives up one attempt early
AttemptFailedOneShort ==
    IF w.attempt >= SYNC_RETRIES - 1
    THEN /\ w' = [w EXCEPT !.pc = "done"]
         /\ ret' = {Thrown(Msg("FailedToSync", 0, 0))}
    ELSE /\ w' = [w EXCEPT !.pc = "sync_write", !.attempt = w.attempt + 1,
                           !.drain = 0]
         /\ ret' = ret

\* the catch of syncWithRetry: throw at the last attempt, else sleep and
\* go round the loop
AttemptFailed ==
    IF w.attempt = SYNC_RETRIES
    THEN /\ w' = [w EXCEPT !.pc = "done"]
         /\ ret' = {Thrown(Msg("FailedToSync", 0, 0))}
    ELSE /\ w' = [w EXCEPT !.pc = "sync_write", !.attempt = w.attempt + 1,
                           !.drain = 0]
         /\ ret' = ret

\* performSync: m_connection->write(slipEncoded)
SyncAttemptWrite ==
    /\ w.pc = "sync_write"
    /\ \E o \in WriteOutcomes(m_connection, txFull) :
        IF o.threw
        THEN /\ AttemptFailed
             /\ hist' = [hist EXCEPT !.writeFailures = @ + 1]
             /\ wire' = wire
        ELSE /\ w' = [w EXCEPT !.pc = "sync_wait"]
             /\ wire' = Append(wire, buildSyncCommand)
             /\ UNCHANGED <<hist, ret>>
    /\ UNCHANGED <<m_isCancelled, beyondSync>>

\* performSync: waitForResponse(Sync, 1.0) and the test of the response
SyncAttemptWait ==
    /\ w.pc = "sync_wait"
    /\ \E o \in waitForResponse(Sync, m_isCancelled, m_connection) :
        IF o.threw \/ ~isSuccess(o.response)
        THEN AttemptFailed
        ELSE /\ w' = [w EXCEPT !.pc = "sync_drain", !.drain = 0]
             /\ ret' = ret
    /\ UNCHANGED <<m_isCancelled, wire, hist, beyondSync>>

\* performSync: one iteration of the drain loop; what the wait returns or
\* throws is dropped
SyncDrainWait ==
    /\ w.pc = "sync_drain"
    /\ w.drain < SYNC_DRAIN_READS
    /\ \E o \in waitForResponse(Sync, m_isCancelled, m_connection) :
        w' = [w EXCEPT !.drain = w.drain + 1]
    /\ UNCHANGED <<m_isCancelled, wire, hist, ret, beyondSync>>

\* performSync: m_connection->flush(); syncWithRetry returns
SyncFlush ==
    /\ w.pc = "sync_drain"
    /\ w.drain = SYNC_DRAIN_READS
    /\ w' = [w EXCEPT !.pc = "done"]
    /\ ret' = {Returned(Response(0, 0, Zero32))}
    /\ UNCHANGED <<m_isCancelled, wire, hist, beyondSync>>

\* FlashingService::cancel, called while the worker is in syncWithRetry
SyncCancel ==
    /\ w.pc # "done"
    /\ ~m_isCancelled
    /\ m_isCancelled' = TRUE
    /\ UNCHANGED <<w, wire, hist, ret, beyondSync>>

SyncNext ==
    \/ SyncAttemptWrite
    \/ SyncAttemptWait
    \/ SyncDrainWait
    \/ SyncFlush
    \/ SyncCancel

SyncSpec == SyncInit /\ [][SyncNext]_vars

----------------------------------------------------------------------------
(* One call of FlashingService::waitForResponse at the level of bytes:     *)
(* what read() returns is run through the streaming decoder and every      *)
(* packet through ESP32Response::parse.  rawData holds the bytes read so   *)
(* far, packets the packets the decoder has given out, in arrival order,   *)
(* ret how the call ended.  The UI thread may call cancel() at any time.   *)

\* frames the device sends during one call
MaxFrames == 3

\* a response packet with two status bytes
ResponsePacket(op, value, status) ==
    <<RESPONSE, op, 2, 0, value, 0, 0, 0, status, 0>>

\* what the decoder may be given as a frame: responses to SYNC (one with a
\* value byte that has to be escaped), a response to READ_REG, a frame in
\* request direction, a frame too short for a header, a header only
DevicePackets ==
    {ResponsePacket(Sync, 7, 0), ResponsePacket(Sync, FRAME_END, 1),
     ResponsePacket(ReadReg, FRAME_ESCAPE, 0),
     <<REQUEST, Sync, 2, 0, 0, 0, 0, 0, 0, 0>>,
     <<RESPONSE, Sync, 0>>,
     <<RESPONSE, Sync, 0, 0, 9, 0, 0, 0>>}

\* what one read() may bring: nothing, one frame, two frames
ReadBatches == UNION {[1..n -> DevicePackets] : n \in 0..2}

RECURSIVE EncodeAll(_, _)
\* the frames of a batch as bytes on the line
EncodeAll(batch, i) ==
    IF i > Len(batch) THEN <<>> ELSE encode(batch[i]) \o EncodeAll(batch, i + 1)

RECURSIVE processFrom(_, _, _, _)
\* SLIPDecoder::process: the loop over data from index i; dec is the
\* decoder, out the packets collected
processFrom(bytes, i, dec, out) ==
    IF i > Len(bytes)
    THEN [packets |-> out, dec |-> dec]
    ELSE LET r == processByte(bytes[i], dec.m_buffer, dec.m_inEscape,
                              dec.m_packetStarted)
         IN IF r.packet # <<>>
            THEN processFrom(bytes, i + 1, r, Append(out, r.packet))
            ELSE processFrom(bytes, i + 1, r, out)

RECURSIVE firstResponseAnyOpcode(_, _, _)
\* a loop that returns the first packet that parses
firstResponseAnyOpcode(pkts, i, command) ==
    IF i > Len(pkts)
    THEN {}
    ELSE IF parse(pkts[i]) # {}
    THEN parse(pkts[i])
    ELSE firstResponseAnyOpcode(pkts, i + 1, command)

RECURSIVE firstResponse(_, _, _)
\* waitForResponse: the loop over the packets of one process() call
firstResponse(pkts, i, command) ==
    IF i > Len(pkts)
    THEN {}
    ELSE IF \E response \in parse(pkts[i]) : response.command = command
    THEN parse(pkts[i])
    ELSE firstResponse(pkts, i + 1, command)

\* what a call of waitForResponse leaves alone
beyondWait ==
    <<m_isFlashing, m_connection, txFull, events, wire, hist, tails, runs,
      rejected, overlap, slipPacket, decoded, feed, arg, serialVars, widgetVars, lineVars>>

WaitCall(command) == [fn |-> "waitForResponse", command |-> command]

\* the worker calls waitForResponse on an open port; the decoder is as the
\* call before left it
WaitInit ==
    /\ m_isFlashing = TRUE
    /\ m_isCancelled = FALSE
    /\ m_connection = "open"
    /\ txFull = FALSE
    /\ w = [IdleFrame EXCEPT !.pc = "wait_reset"]
    /\ events = <<>>
    /\ wire = <<>>
    /\ hist = NewHist
    /\ tails = {}
    /\ runs = 1
    /\ rejected = FALSE
    /\ overlap = 0
    /\ rawData = <<>>
    /\ slipPacket = {}
    /\ decoded = {}
    /\ \/ FreshDecoder
       \/ /\ m_buffer = <<RESPONSE, Sync>>
          /\ m_inEscape = TRUE
          /\ m_packetStarted = TRUE
    /\ feed = {}
    /\ packets = <<>>
    /\ NoSerial
    /\ NoWidget
    /\ NoLines
    /\ arg \in {WaitCall(Sync), WaitCall(ReadReg)}
    /\ ret = {}

\* deadline = now + timeout; m_slipDecoder.reset()
WaitReset ==
    /\ w.pc = "wait_reset"
    /\ w' = [w EXCEPT !.pc = "wait_loop"]
    /\ m_buffer' = <<>>
    /\ m_inEscape' = FALSE
    /\ m_packetStarted' = FALSE
    /\ UNCHANGED <<m_isCancelled, rawData, packets, ret, beyondWait>>

\* the loop condition fails: the deadline has passed
WaitDeadline ==
    /\ w.pc = "wait_loop"
    /\ w' = [w EXCEPT !.pc = "done"]
    /\ ret' = {Thrown(Msg("Timeout", arg.command, 0))}
    /\ UNCHANGED <<m_isCancelled, rawData, m_buffer, m_inEscape,
                   m_packetStarted, packets, beyondWait>>

\* the poll at the top of an iteration finds m_isCancelled set
WaitCancelled ==
    /\ w.pc = "wait_loop"
    /\ m_isCancelled
    /\ w' = [w EXCEPT !.pc = "done"]
    /\ ret' = {Thrown(Msg("Cancelled", 0, 0))}
    /\ UNCHANGED <<m_isCancelled, rawData, m_buffer, m_inEscape,
                   m_packetStarted, packets, beyondWait>>

\* an iteration whose read() throws ReadFailed: it is not a Timeout and is
\* thrown on
WaitReadFails ==
    /\ w.pc = "wait_loop"
    /\ ~m_isCancelled
    /\ w' = [w EXCEPT !.pc = "done"]
    /\ ret' = {Thrown(Msg("ReadFailed", 0, 0))}
    /\ UNCHANGED <<m_isCancelled, rawData, m_buffer, m_inEscape,
                   m_packetStarted, packets, beyondWait>>

\* an iteration whose read() returns: process(data), then the loop over
\* the packets
WaitRead ==
    /\ w.pc = "wait_loop"
    /\ ~m_isCancelled
    /\ \E batch \in ReadBatches :
        /\ Len(packets) + Len(batch) <= MaxFrames
        /\ LET bytes == EncodeAll(batch, 1)
               r == processFrom(bytes, 1,
                                DecoderStep(<<>>, m_buffer, m_inEscape,
                                            m_packetStarted),
                                <<>>)
               found == firstResponse(r.packets, 1, arg.command)
           IN /\ rawData' = rawData \o bytes
              /\ m_buffer' = r.dec.m_buffer
              /\ m_inEscape' = r.dec.m_inEscape
              /\ m_packetStarted' = r.dec.m_packetStarted
              /\ packets' = packets \o r.packets
              /\ IF found # {}
                 THEN /\ w' = [w EXCEPT !.pc = "done"]
                      /\ ret' = {Returned(response) : response \in found}
                 ELSE UNCHANGED <<w, ret>>
    /\ UNCHANGED <<m_isCancelled, beyondWait>>

\* FlashingService::cancel, called while the worker is in waitForResponse
WaitCancel ==
    /\ w.pc # "done"
    /\ ~m_isCancelled
    /\ m_isCancelled' = TRUE
    /\ UNCHANGED <<w, rawData, m_buffer, m_inEscape, m_packetStarted, packets,
                   ret, beyondWait>>

WaitNext ==
    \/ WaitReset
    \/ WaitDeadline
    \/ WaitCancelled
    \/ WaitReadFails
    \/ WaitRead
    \/ WaitCancel

WaitSpec == WaitInit /\ [][WaitNext]_vars

----------------------------------------------------------------------------
(* The streaming decoder on a byte stream: noise, then encoded frames,     *)
(* handed to SLIPDecoder::process in pieces of any length.  arg holds what *)
(* the stream was made of, rawData the stream, feed the bytes still to     *)
(* come, packets the frames given out so far.                              *)

\* longest noise ahead of the frames
MaxJunk == 2

\* longest payload of the first frame
MaxPayload == 2

\* bytes of noise and of payloads: the delimiter, the escape, and a byte
\* that is special only after an escape
StreamBytes == {FRAME_END, FRAME_ESCAPE, ESCAPED_END}

Junks == UNION {[1..n -> StreamBytes] : n \in 0..MaxJunk}

Payloads == UNION {[1..n -> StreamBytes] : n \in 1..MaxPayload}

\* one frame, or two of which the second has one byte
PayloadLists ==
    {<<x>> : x \in Payloads}
    \cup {<<x, <<b>>>> : x \in Payloads, b \in StreamBytes}

StreamCall(junk, payloads) ==
    [fn |-> "process", junk |-> junk, payloads |-> payloads]

\* the bytes on the line
StreamOf(call) == call.junk \o EncodeAll(call.payloads, 1)

\* a decoder that was left in the middle of a frame
UsedDecoder ==
    /\ m_buffer \in {<<>>, <<ESCAPED_END>>}
    /\ m_inEscape \in BOOLEAN
    /\ m_packetStarted = TRUE

\* the stream is about to be fed to a decoder that was just constructed,
\* or to one that is in use and has to be reset first
StreamInit ==
    /\ ServiceInit
    /\ NoSerial
    /\ NoWidget
    /\ NoLines
    /\ arg \in {StreamCall(g, xs) : g \in Junks, xs \in PayloadLists}
    /\ ret = {}
    /\ rawData = StreamOf(arg)
    /\ slipPacket = {}
    /\ decoded = {}
    /\ packets = <<>>
    /\ \/ FreshDecoder /\ feed = {rawData}
       \/ UsedDecoder /\ feed = {}

\* a reset that clears the escape flag only
StreamResetKeepsFrame ==
    /\ feed = {}
    /\ m_inEscape' = FALSE
    /\ feed' = {rawData}
    /\ UNCHANGED <<rawData, slipPacket, decoded, m_buffer, m_packetStarted,
                   packets, beyondCodec>>

\* SLIPDecoder::reset, after which the stream is fed
StreamReset ==
    /\ feed = {}
    /\ m_buffer' = <<>>
    /\ m_inEscape' = FALSE
    /\ m_packetStarted' = FALSE
    /\ feed' = {rawData}
    /\ UNCHANGED <<rawData, slipPacket, decoded, packets, beyondCodec>>

\* one call of SLIPDecoder::process with the next n bytes of the stream
StreamProcess ==
    \E rest \in feed :
        \E n \in 1..Len(rest) :
            LET r == processFrom(SubSeq(rest, 1, n), 1,
                                 DecoderStep(<<>>, m_buffer, m_inEscape,
                                             m_packetStarted),
                                 <<>>)
            IN /\ m_buffer' = r.dec.m_buffer
               /\ m_inEscape' = r.dec.m_inEscape
               /\ m_packetStarted' = r.dec.m_packetStarted
               /\ packets' = packets \o r.packets
               /\ feed' = {SubSeq(rest, n + 1, Len(rest))}
               /\ UNCHANGED <<rawData, slipPacket, decoded, beyondCodec>>

StreamNext ==
    \/ StreamReset
    \/ StreamProcess

StreamSpec == StreamInit /\ [][StreamNext]_vars

----------------------------------------------------------------------------
(* Both decoders on the same bytes as they come off the line, framed or    *)
(* not: SLIPCodec::decode is called on rawData, and rawData is fed to a    *)
(* SLIPDecoder that was just constructed.                                  *)

\* longest byte sequence given to both decoders
MaxRaw == 5

RawSeqs == UNION {[1..n -> SlipBytes] : n \in 0..MaxRaw}

RawInit ==
    /\ ServiceInit
    /\ rawData \in RawSeqs
    /\ SlipInit
    /\ NoCall
    /\ NoSerial
    /\ NoWidget
    /\ NoLines

\* decoded = SLIPCodec::decode(rawData)
DecodeRaw ==
    /\ decoded = {}
    /\ decoded' = {decode(rawData)}
    /\ UNCHANGED <<rawData, slipPacket, m_buffer, m_inEscape, m_packetStarted,
                   feed, packets, beyondCodec>>

RawNext ==
    \/ DecodeRaw
    \/ ProcessCall
    \/ Process

RawSpec == RawInit /\ [][RawNext]_vars

----------------------------------------------------------------------------
(* FlasherWidget: the firmware the user picks and the flash button.  A     *)
(* port is selected throughout.  A run that was started is followed from   *)
(* the image loop on: the device answers every command, arg holds the      *)
(* image that is flashed and ret the frames handed to write().             *)

\* the first byte of an ESP32 image
IMAGE_MAGIC == 233

\* FlashingState::isActive
isActive(state) == state.type \notin {"Idle", "Complete", "Error"}

\* FirmwareImage::isValid
imageIsValid(image) ==
    IF image.size < 8 THEN FALSE ELSE image.data[1] = IMAGE_MAGIC

\* FirmwareFile::isValid
isValid(images) ==
    IF images = <<>>
    THEN FALSE
    ELSE \A i \in 1..Len(images) : imageIsValid(images[i])

\* what a picked file may hold: nothing, or 1, 7, 8, 9 or 1025 bytes of
\* which the first is the magic byte or is not
FileContents ==
    {<<>>}
    \cup {[i \in 1..n |-> IF i = 1 THEN b ELSE 0] :
              n \in {1, 7, 8, 9, 1025}, b \in {IMAGE_MAGIC, 0}}

\* the file the dialog returns: whether QFile::open succeeds, whether its
\* name marks a merged binary, and its bytes
PickedFiles ==
    [opens : BOOLEAN, merged : BOOLEAN, data : FileContents]

\* FirmwareFile(filePath, data): one image, at 0x0 if the name says merged
SingleFile(file) ==
    <<ImageOf(IF file.merged THEN 0 ELSE 65536, file.data)>>

MissingMagic == [NoMsg EXCEPT !.kind = "MissingMagic"]
CannotOpenFile == [NoMsg EXCEPT !.kind = "CannotOpenFile"]

\* what the widget leaves alone
beyondWidget ==
    <<m_connection, txFull, w, events, wire, hist, tails, runs, rejected,
      overlap, slipVars, serialVars, lineVars>>

WidgetInit ==
    /\ ServiceInit
    /\ CodecIdle
    /\ NoCall
    /\ NoSerial
    /\ NoWidget
    /\ NoLines

\* selectFirmware: loadFromFile, then isValid
SelectFirmware ==
    /\ ~isActive(m_currentState)
    /\ \E file \in PickedFiles :
        IF file.opens
        THEN /\ m_firmwareFile' = {SingleFile(file)}
             /\ m_currentState' =
                    IF ~isValid(SingleFile(file))
                    THEN error("InvalidFirmware", MissingMagic, 0)
                    ELSE idle
        ELSE /\ m_firmwareFile' = {}
             /\ m_currentState' = error("InvalidFirmware", CannotOpenFile, 0)
    /\ UNCHANGED <<m_isFlashing, m_isCancelled, arg, ret, beyondWidget>>

\* the flash button while no run is shown: startFlashing, flash() and the
\* run's Connecting event
StartFlashing ==
    /\ ~isActive(m_currentState)
    /\ m_firmwareFile # {}
    /\ ~m_isFlashing
    /\ m_isCancelled' = FALSE
    /\ m_isFlashing' = TRUE
    /\ \E firmware \in m_firmwareFile : arg' = ImageCall(firmware[1])
    /\ ret' = {}
    /\ m_currentState' = connecting
    /\ UNCHANGED <<m_firmwareFile, beyondWidget>>

\* the run has written the last block: Complete, cleanup()
RunComplete ==
    /\ arg.fn = "flashImage"
    /\ \E frames \in ret : Len(frames) - 1 = NumBlocks(arg.image)
    /\ m_isFlashing' = FALSE
    /\ m_currentState' = complete
    /\ arg' = [fn |-> "none"]
    /\ ret' = {}
    /\ UNCHANGED <<m_isCancelled, m_firmwareFile, beyondWidget>>

WidgetNext ==
    \/ SelectFirmware
    \/ StartFlashing
    \/ FlashImageBegin
    \/ FlashImageBlock
    \/ RunComplete

WidgetSpec == WidgetInit /\ [][WidgetNext]_vars

----------------------------------------------------------------------------
(* The control lines over a run                                            *)
(*                                                                         *)
(* runFlashing as the sequence of calls it makes on its SerialConnection,  *)
(* with the DTR and RTS bits of the port.  Every call is one step and is   *)
(* written to portLog with the lines as it left them; setDTR, setRTS and   *)
(* setDTRRTS are the only calls whose code holds a TIOCMBIS or TIOCMBIC    *)
(* ioctl.  The ioctls are taken to do what they ask; what the tty driver   *)
(* does to the lines of its own accord is not part of the program, so the  *)
(* lines start in any state.  A command and its response are a write and a *)
(* read that may each fail; the loops over images and blocks go round any  *)
(* number of times.  cancel() is left out: it ends a run through the same  *)
(* cleanup() as a failed call.  A second run follows the first on the same *)
(* port.                                                                   *)

\* descriptors on both sides of each test of isESP32C3
AnyDescriptors == [vendorId : {12346, 4292}, productId : {4097, 60000}]

LineCalls == {"setDTR", "setRTS", "setDTRRTS"}

\* the calls that hold a tcflush(TCIOFLUSH)
FlushingCalls == {"open", "flush", "setBaudRate"}

Lines(d, r) == [dtr |-> d, rts |-> r]

\* setDTR, setRTS: TIOCMBIS or TIOCMBIC of the one bit
setDTR(lines, value) == [lines EXCEPT !.dtr = value]
setRTS(lines, value) == [lines EXCEPT !.rts = value]

\* setDTRRTS: the DTR ioctl, then the RTS ioctl
setDTRRTS(lines, d, r) == setRTS(setDTR(lines, d), r)

\* an open() that deasserts both lines once it has the descriptor
LineEffectOpenDrops(call, args, lines) ==
    CASE call = "setDTR" -> setDTR(lines, args[1])
      [] call = "setRTS" -> setRTS(lines, args[1])
      [] call = "setDTRRTS" -> setDTRRTS(lines, args[1], args[2])
      [] call = "open" -> Lines(FALSE, FALSE)
      [] OTHER -> lines

\* what a call on the connection does to the lines: open, close, read, write,
\* flush and setBaudRate hold no ioctl on the modem bits
LineEffect(call, args, lines) ==
    CASE call = "setDTR" -> setDTR(lines, args[1])
      [] call = "setRTS" -> setRTS(lines, args[1])
      [] call = "setDTRRTS" -> setDTRRTS(lines, args[1], args[2])
      [] OTHER -> lines

LineCall(call, args) == [call |-> call, args |-> args]

\* usbJtagSerialReset, a classicReset that releases the boot pin first,
\* classicReset and hardReset as the calls they make, in order
usbJtagSerialReset ==
    << LineCall("setRTS", <<FALSE>>), LineCall("setDTR", <<FALSE>>),
       LineCall("setDTR", <<TRUE>>), LineCall("setRTS", <<FALSE>>),
       LineCall("setRTS", <<TRUE>>), LineCall("setDTR", <<FALSE>>),
       LineCall("setRTS", <<TRUE>>),
       LineCall("setDTR", <<FALSE>>), LineCall("setRTS", <<FALSE>>) >>

classicResetReleasesEarly ==
    << LineCall("setDTRRTS", <<FALSE, TRUE>>), LineCall("setDTR", <<FALSE>>),
       LineCall("setDTRRTS", <<TRUE, FALSE>>) >>

classicReset ==
    << LineCall("setDTRRTS", <<FALSE, TRUE>>),
       LineCall("setDTRRTS", <<TRUE, FALSE>>),
       LineCall("setDTR", <<FALSE>>) >>

hardReset ==
    << LineCall("setDTR", <<FALSE>>), LineCall("setRTS", <<TRUE>>),
       LineCall("setRTS", <<FALSE>>) >>

Routine(name) ==
    CASE name = "usbJtagSerialReset" -> usbJtagSerialReset
      [] name = "classicReset" -> classicReset
      [] name = "hardReset" -> hardReset

Routines == {"usbJtagSerialReset", "classicReset", "hardReset"}

\* one entry of portLog: the call, whether it did what it was asked to (kept
\* for open only), and the lines as it left them
Logged(call, ok, lines) ==
    [call |-> call, ok |-> (call = "open" => ok), dtr |-> lines.dtr,
     rts |-> lines.rts]

\* portLog with one more call.  A call like the one before it is written
\* once, and so is a write and read that follow a like write and read: the
\* log keeps which kinds of call follow which, not how many there were.
WithCall(log, e) ==
    LET n == Len(log)
    IN IF n >= 1 /\ log[n] = e /\ e.call \notin LineCalls
       THEN log
       ELSE IF /\ n >= 2
               /\ e.call = "write"
               /\ log[n].call = "read"
               /\ log[n - 1] = e
            THEN SubSeq(log, 1, n - 1)
            ELSE Append(log, e)

\* the index of the first call of the reset routine that portLog holds last,
\* and the log from there on; nothing if it holds none
RECURSIVE RoutineStart(_, _)
RoutineStart(log, i) ==
    IF i = 0 THEN 0
    ELSE IF log[i].call \notin LineCalls THEN RoutineStart(log, i - 1)
    ELSE IF i > 1 /\ log[i - 1].call \in LineCalls
    THEN RoutineStart(log, i - 1)
    ELSE i

SinceReset(log) ==
    LET i == RoutineStart(log, Len(log))
    IN IF i = 0 THEN <<>> ELSE SubSeq(log, i, Len(log))

\* the frame of a run that has not called anything yet
PortFrame(port, baudRate) ==
    [pc |-> "open", port |-> port, baudRate |-> baudRate, usb |-> FALSE,
     stage |-> "none", step |-> 0, attempt |-> 0, round |-> 1,
     entries |-> 0]

NoPortFrame ==
    [PortFrame(CHOOSE d \in AnyDescriptors : TRUE, DEFAULT_BAUD)
        EXCEPT !.pc = "idle"]

beyondPort ==
    <<m_isFlashing, m_isCancelled, txFull, events, wire, hist, tails,
      rejected, overlap, slipVars, callVars, serialVars, widgetVars>>

PortInit ==
    /\ m_isFlashing = FALSE
    /\ m_isCancelled = FALSE
    /\ m_connection = "null"
    /\ txFull = FALSE
    /\ w = NoPortFrame
    /\ events = <<>>
    /\ wire = <<>>
    /\ hist = NewHist
    /\ tails = {}
    /\ runs = 0
    /\ rejected = FALSE
    /\ overlap = 0
    /\ CodecIdle
    /\ NoCall
    /\ NoSerial
    /\ NoWidget
    /\ dtr \in BOOLEAN
    /\ rts \in BOOLEAN
    /\ portLog = <<>>

\* a call on the connection: its effect on the lines and its log entry
PortCall(call, args, ok, next) ==
    LET after == LineEffect(call, args, Lines(dtr, rts))
    IN /\ dtr' = after.dtr
       /\ rts' = after.rts
       /\ portLog' = WithCall(portLog, Logged(call, ok, after))
       /\ w' = next

\* the run is over, by a throw or at its end: cleanup() is what it does next
RunOver(frame) ==
    [frame EXCEPT !.pc = "cleanup", !.stage = "none", !.step = 0,
                  !.attempt = 0]

\* flash() while no run is under way: a new SerialConnection, the worker.
\* Of the runs before, the log keeps what followed their last reset routine.
PortFlash ==
    /\ w.pc \in {"idle", "done"}
    /\ runs < MaxRuns
    /\ \E port \in AnyDescriptors, baudRate \in BaudRates :
        w' = PortFrame(port, baudRate)
    /\ m_connection' = "closed"
    /\ runs' = runs + 1
    /\ portLog' = Append(SinceReset(portLog),
                         Logged("SerialConnection", TRUE, Lines(dtr, rts)))
    /\ UNCHANGED <<dtr, rts, beyondPort>>

\* m_connection->open(port.path)
PortOpen ==
    /\ w.pc = "open"
    /\ \E ok \in BOOLEAN :
        /\ PortCall("open", <<>>, ok,
                    IF ok THEN [w EXCEPT !.pc = "enterBootloaderMode"]
                    ELSE RunOver(w))
        /\ m_connection' = IF ok THEN "open" ELSE m_connection
    /\ UNCHANGED <<runs, beyondPort>>

\* isUSBJTAGSerial = port.isESP32C3(); enterBootloaderMode picks the routine
EnterBootloaderMode ==
    /\ w.pc = "enterBootloaderMode"
    /\ w' = [w EXCEPT !.usb = isESP32C3(w.port),
                      !.pc = IF isESP32C3(w.port) THEN "usbJtagSerialReset"
                             ELSE "classicReset",
                      !.step = 1,
                      !.entries = @ + 1]
    /\ UNCHANGED <<m_connection, runs, lineVars, beyondPort>>

\* the next setDTR, setRTS or setDTRRTS of the routine the run is in; after
\* the last one enterBootloaderMode goes on to its flush() and flashEnd
\* returns
LineStep ==
    /\ w.pc \in Routines
    /\ LET calls == Routine(w.pc)
           c == calls[w.step]
           last == w.step = Len(calls)
       IN IF m_connection # "open"
          THEN /\ w' = RunOver(w)
               /\ UNCHANGED lineVars
          ELSE PortCall(c.call, c.args, TRUE,
                        IF ~last THEN [w EXCEPT !.step = @ + 1]
                        ELSE IF w.pc = "hardReset" THEN RunOver(w)
                        ELSE [w EXCEPT !.pc = "flush", !.stage = "entry",
                                       !.step = 0])
    /\ UNCHANGED <<m_connection, runs, beyondPort>>

\* where the run goes once it is in sync: disableWatchdogs for a
\* USB-JTAG-Serial port, then changeBaudRate unless the rate is 115200, then
\* spiAttach
AfterWatchdogs(frame) ==
    IF frame.baudRate # DEFAULT_BAUD
    THEN [frame EXCEPT !.pc = "write", !.stage = "changeBaudRate",
                       !.attempt = 0]
    ELSE [frame EXCEPT !.pc = "write", !.stage = "spiAttach", !.attempt = 0]

AfterSync(frame) ==
    IF frame.usb
    THEN [frame EXCEPT !.pc = "write", !.stage = "disableWatchdogs",
                       !.attempt = 0]
    ELSE AfterWatchdogs(frame)

\* where the run goes after a flush()
AfterFlush(frame) ==
    CASE frame.stage = "entry" -> [frame EXCEPT !.stage = "settled"]
      [] frame.stage \in {"settled", "reopened"} ->
           [frame EXCEPT !.pc = "write", !.stage = "sync"]
      [] frame.stage = "sync" -> AfterSync(frame)
      [] frame.stage = "baudSync" ->
           [frame EXCEPT !.pc = "write", !.stage = "spiAttach"]

\* a flush() that finds no descriptor and returns
PortFlushNoDescriptor ==
    /\ w.pc = "flush"
    /\ w' = AfterFlush(w)
    /\ UNCHANGED <<m_connection, runs, lineVars, beyondPort>>

\* m_connection->flush(): at the end of enterBootloaderMode, after the
\* sleep that follows it, after the reopen, and at the end of performSync
PortFlush ==
    /\ w.pc = "flush"
    /\ PortCall("flush", <<>>, TRUE, AfterFlush(w))
    /\ UNCHANGED <<m_connection, runs, beyondPort>>

\* a command or its response failed.  syncWithRetry goes round until its
\* last attempt (the attempts are not counted: any of them may be the last);
\* a first round that fails before it is in sync closes the port, one that
\* fails in disableWatchdogs goes on; a flashEnd without a response goes on;
\* everything else ends the run.
ExchangeFailed(frame, reading, last) ==
    CASE frame.stage = "sync" ->
           IF ~last
           THEN [frame EXCEPT !.pc = "write"]
           ELSE IF frame.round = 1
                THEN [frame EXCEPT !.pc = "close"]
                ELSE RunOver(frame)
      [] frame.stage = "disableWatchdogs" ->
           IF frame.round = 1 THEN AfterWatchdogs(frame) ELSE RunOver(frame)
      [] frame.stage = "flashEnd" ->
           IF reading
           THEN IF frame.usb
                THEN [frame EXCEPT !.pc = "hardReset", !.step = 1]
                ELSE RunOver(frame)
           ELSE RunOver(frame)
      [] OTHER -> RunOver(frame)

\* m_connection->write(encoded) of the command of the stage the run is in
PortWrite ==
    /\ w.pc = "write"
    /\ \E ok \in BOOLEAN, last \in BOOLEAN :
        PortCall("write", <<>>, ok,
                 IF ~ok THEN ExchangeFailed(w, FALSE, last)
                 ELSE IF w.stage = "changeBaudRate"
                 THEN [w EXCEPT !.pc = "setBaudRate"]
                 ELSE [w EXCEPT !.pc = "read"])
    /\ UNCHANGED <<m_connection, runs, beyondPort>>

\* the commands that may follow a command of the image loop: the loops over
\* images and blocks go round as often as the bundle asks, also not at all
Following(stage) ==
    IF stage = "spiAttach" THEN {"flashBegin", "flashEnd"}
    ELSE {"flashData", "flashBegin", "flashEnd"}

\* waitForResponse of the stage the run is in, and what follows a response
\* that is a success: the flush of performSync, the next command, or the
\* end of flashEnd
PortRead ==
    /\ w.pc = "read"
    /\ \E ok \in BOOLEAN, last \in BOOLEAN, then \in Following(w.stage) :
        PortCall("read", <<>>, ok,
             IF ~ok THEN ExchangeFailed(w, TRUE, last)
             ELSE CASE w.stage \in {"sync", "baudSync"} ->
                         [w EXCEPT !.pc = "flush"]
                    [] w.stage = "disableWatchdogs" -> AfterWatchdogs(w)
                    [] w.stage \in {"spiAttach", "flashBegin", "flashData"} ->
                         [w EXCEPT !.pc = "write", !.stage = then]
                    [] w.stage = "flashEnd" ->
                         IF w.usb
                         THEN [w EXCEPT !.pc = "hardReset", !.step = 1]
                         ELSE RunOver(w))
    /\ UNCHANGED <<m_connection, runs, beyondPort>>

\* changeBaudRate: m_connection->setBaudRate(rate), then performSync
PortSetBaudRate ==
    /\ w.pc = "setBaudRate"
    /\ \E ok \in BOOLEAN :
        PortCall("setBaudRate", <<>>, ok,
                 IF ok THEN [w EXCEPT !.pc = "write", !.stage = "baudSync"]
                 ELSE RunOver(w))
    /\ UNCHANGED <<m_connection, runs, beyondPort>>

\* the first round did not get in sync: m_connection->close()
PortClose ==
    /\ w.pc = "close"
    /\ PortCall("close", <<>>, TRUE, [w EXCEPT !.pc = "reopen", !.attempt = 1])
    /\ m_connection' = "closed"
    /\ UNCHANGED <<runs, beyondPort>>

\* one attempt of the reopen loop
PortReopen ==
    /\ w.pc = "reopen"
    /\ \E ok \in BOOLEAN :
        /\ PortCall("open", <<>>, ok,
                    IF ok
                    THEN [w EXCEPT !.pc = "flush", !.stage = "reopened",
                                   !.round = 2, !.attempt = 0]
                    ELSE IF w.attempt < REOPEN_ATTEMPTS
                    THEN [w EXCEPT !.attempt = @ + 1]
                    ELSE RunOver(w))
        /\ m_connection' = IF ok THEN "open" ELSE m_connection
    /\ UNCHANGED <<runs, beyondPort>>

\* cleanup(): close the connection if there is one, and drop it
PortCleanup ==
    /\ w.pc = "cleanup"
    /\ IF m_connection = "open"
       THEN PortCall("close", <<>>, TRUE, [w EXCEPT !.pc = "done"])
       ELSE /\ w' = [w EXCEPT !.pc = "done"]
            /\ UNCHANGED lineVars
    /\ m_connection' = "null"
    /\ UNCHANGED <<runs, beyondPort>>

PortNext ==
    \/ PortFlash
    \/ PortOpen
    \/ EnterBootloaderMode
    \/ LineStep
    \/ PortFlush
    \/ PortWrite
    \/ PortRead
    \/ PortSetBaudRate
    \/ PortClose
    \/ PortReopen
    \/ PortCleanup

PortSpec == PortInit /\ [][PortNext]_vars

----------------------------------------------------------------------------
(* What the event stream of a run looks like                               *)

Terminal(e) == e.type \in {"Complete", "Error"}

LastEvent(r) == r.events[Len(r.events)]

Ended(r) == r.pc = "done"

EndsWith(r, errorType) ==
    /\ Len(r.events) > 0
    /\ LastEvent(r).type = "Error"
    /\ LastEvent(r).errorType = errorType

\* a run has been accepted and has not emitted its terminal event
Unfinished == Live(w.pc) \/ Pending

\* a terminal event is the last event of its run, and a worker that has
\* returned has emitted one
OneTerminalLast ==
    \A r \in RunViews :
        /\ \A i \in 1..Len(r.events) :
               Terminal(r.events[i]) => i = Len(r.events)
        /\ Ended(r) => Len(r.events) > 0 /\ Terminal(LastEvent(r))
        /\ (Len(r.events) > 0 /\ Terminal(LastEvent(r)))
               => r.pc \in {"cleanupOk", "done"}

\* C1: every accepted run emits exactly one terminal event, Complete or
\* Error, and no event after it: a terminal event is the last event of its
\* run, and every accepted run comes to emit one.
C1_ExactlyOneTerminalEvent ==
    []OneTerminalLast /\ (Unfinished ~> ~Unfinished)

\* C2: a run during which cancel() was called between its first Syncing
\* event and the writing of FLASH_END never emits Complete and ends with
\* Error(Cancelled).
C2_CancelInWindowEndsCancelled ==
    \A r \in RunViews :
        r.hist.cancelWin =>
            /\ ~HasEvent(r.events, "Complete")
            /\ Ended(r) => EndsWith(r, "Cancelled")

\* C3: once cancel() has been called during a run no FLASH_END is written
\* in that run, and the transport is closed when the run has ended.
C3_NoFlashEndAfterCancel ==
    /\ \A r \in RunViews : ~(r.hist.cancelPre /\ r.ended)
    /\ (Ended(MainView) /\ hist.cancelReq) => m_connection # "open"

\* a step of flash(): one that was turned away, or one that was accepted
FlashCalled == (rejected' /\ ~rejected) \/ runs' # runs

\* C4: a flash() called while m_isFlashing is true starts no worker, emits
\* no event, and changes nothing of the running flash, the pending cancel
\* request included.
C4_ReentrantFlashIsNoOp ==
    [][(m_isFlashing /\ FlashCalled)
          => UNCHANGED <<m_isFlashing, m_isCancelled, m_connection, txFull, w,
                         events, wire, hist, tails, runs, overlap>>]_vars

\* a flash() has just been turned away by a run that is writing blocks and
\* has a cancel request pending
C4_Witness ==
    /\ rejected
    /\ m_isFlashing
    /\ m_isCancelled
    /\ HasEvent(events, "Flashing")

\* C5: whenever a run emits an Error event, the transport has been closed
\* and m_isFlashing is false.  Stated of the positions at which an Error
\* is the next thing the run does.
C5_ClosedAndIdleAtError ==
    (\E r \in RunViews : r.pc = "emitError")
        => (m_connection # "open" /\ ~m_isFlashing)

\* the stage of a state event in the lifecycle as the specification draws
\* it: every kind of event is a stage of its own
Stage(type) ==
    CASE type = "Connecting" -> 1
      [] type = "Syncing" -> 2
      [] type = "ChangingBaudRate" -> 3
      [] type = "Erasing" -> 4
      [] type = "Flashing" -> 5
      [] type = "Verifying" -> 6
      [] type = "Restarting" -> 7
      [] type = "Complete" -> 8
      [] OTHER -> 9

\* the stages with the writing of the images as one stage, in which Erasing
\* and Flashing alternate image by image
StagePerImage(type) ==
    IF type = "Erasing" THEN Stage("Flashing") ELSE Stage(type)

\* C6 as stated: no event of an earlier stage follows an event of a later
\* stage, every kind of event being a stage; Error is last.
C6_StrictLinearLifecycle ==
    \A i, j \in 1..Len(events) :
        i < j => Stage(events[i].type) <= Stage(events[j].type)

Count(ev, type) == Cardinality({i \in 1..Len(ev) : ev[i].type = type})

\* C6: the events of a run follow Connecting, Syncing, [ChangingBaudRate],
\* then per image Erasing and its Flashing events, then Verifying,
\* Restarting, Complete: no event of an earlier stage follows one of a
\* later stage, where Erasing and Flashing form one stage; Connecting is the
\* first event and, like ChangingBaudRate, Verifying, Restarting and
\* Complete, emitted at most once; a Flashing event follows an Erasing or a
\* Flashing event, an Erasing event follows the sync stage or the Flashing
\* events of the image before, once per image at most; Error comes last.
C6_LifecyclePerImage ==
    /\ \A i, j \in 1..Len(events) :
           i < j => StagePerImage(events[i].type) <= StagePerImage(events[j].type)
    /\ Len(events) > 0 => events[1].type = "Connecting"
    /\ \A type \in {"Connecting", "ChangingBaudRate", "Verifying",
                     "Restarting", "Complete", "Error"} :
           Count(events, type) <= 1
    /\ \A j \in 1..Len(events) :
           /\ events[j].type = "Flashing"
                  => j > 1 /\ events[j - 1].type \in {"Erasing", "Flashing"}
           /\ events[j].type = "Erasing"
                  => j > 1 /\ events[j - 1].type
                                 \in {"Syncing", "ChangingBaudRate", "Flashing"}
    /\ Count(events, "Erasing") <= Len(w.firmware)
    /\ \A r \in RunViews :
           \A i \in 1..Len(r.events) :
               r.events[i].type = "Error" => i = Len(r.events)

\* a run of two images has completed: Erasing was emitted after Flashing
C6_Witness ==
    /\ Len(events) > 0
    /\ events[Len(events)].type = "Complete"
    /\ \E i, j \in 1..Len(events) :
           i < j /\ events[i].type = "Flashing" /\ events[j].type = "Erasing"
    /\ HasEvent(events, "ChangingBaudRate")

\* C7: a FLASH_BEGIN answered with a status or error other than 0 ends the
\* run with Error(FlashBeginFailed) carrying the status; a FLASH_DATA so
\* answered ends it with Error(FlashDataFailed) carrying the block number.
\* Stated of runs during which cancel() was not called.
C7_FlashFailureReported ==
    \A r \in RunViews :
        (Ended(r) /\ ~r.hist.cancelReq) =>
            /\ r.msg.kind = "FlashBeginFailed" =>
                   /\ EndsWith(r, "FlashBeginFailed")
                   /\ LastEvent(r).errorData = r.msg.a
            /\ r.msg.kind = "FlashDataFailed" =>
                   /\ EndsWith(r, "FlashDataFailed")
                   /\ LastEvent(r).errorData = r.msg.a

\* C8: a run ended by the deadline of a wait for a response, other than
\* the wait after FLASH_END with reboot, ends with Error(Timeout) if
\* cancel() was not called.
C8_TimeoutReported ==
    \A r \in RunViews :
        (Ended(r) /\ ~r.hist.cancelReq /\ r.msg.kind = "Timeout"
           /\ r.msg.a # FlashEnd)
            => EndsWith(r, "Timeout")

\* syncWithRetry has given up in the first round and in the round after
\* the reopening, and cancel() was not called
SyncExhaustedTwice(r) == r.hist.exhausted = 2 /\ ~r.hist.cancelReq

\* C9: if syncWithRetry gives up in the first round and again in the round
\* after the port was reopened, and cancel() was not called, the terminal
\* event is Error(SyncFailed) with errorData = SYNC_RETRIES.
C9_SyncExhaustedIsSyncFailed ==
    \A r \in RunViews :
        (Ended(r) /\ SyncExhaustedTwice(r)) =>
            /\ EndsWith(r, "SyncFailed")
            /\ LastEvent(r).errorData = SYNC_RETRIES
            /\ SYNC_RETRIES = 20

\* a run has ended after both rounds gave up
C9_Witness ==
    \E r \in RunViews :
        /\ Ended(r)
        /\ SyncExhaustedTwice(r)
        /\ EndsWith(r, "SyncFailed")

\* all reopen attempts have failed
ReopenFailed(r) == r.msg.kind = "CouldNotReopen"

OnlySync(wr) == \A i \in 1..Len(wr) : wr[i].op = Sync

\* after the failed first round the transport is closed, at most
\* REOPEN_ATTEMPTS attempts are made to reopen it, and until one succeeds
\* nothing but the first round's SYNC has been written
ReopenDiscipline ==
    /\ w.reopen <= REOPEN_ATTEMPTS
    /\ REOPEN_ATTEMPTS = 5
    /\ w.pc = "reopen" =>
           /\ w.reopen >= 1
           /\ m_connection = "closed"
           /\ ~w.syncSucceeded
           /\ OnlySync(wire)
    /\ ReopenFailed(MainView) =>
           /\ OnlySync(wire)
           /\ hist.exhausted = 1
           /\ Count(events, "Syncing") = 1

\* C10 as stated: if all reopen attempts fail the terminal event is
\* Error(ConnectionFailed), whatever else happened.
C10_ReopenFailureIsConnectionFailed ==
    /\ ReopenDiscipline
    /\ \A r \in RunViews :
           (Ended(r) /\ ReopenFailed(r)) => EndsWith(r, "ConnectionFailed")

\* C10: if the first sync round fails the transport is closed and at most
\* 5 attempts are made to reopen it; no command is written after the
\* closing unless an attempt succeeds; if all 5 fail and cancel() was not
\* called during the run the terminal event is Error(ConnectionFailed), and
\* if it was called the terminal event is Error(Cancelled).
C10_ReopenFailureUnlessCancelled ==
    /\ ReopenDiscipline
    /\ \A r \in RunViews :
           (Ended(r) /\ ReopenFailed(r)) =>
               IF r.hist.cancelReq
               THEN EndsWith(r, "ConnectionFailed") \/ EndsWith(r, "Cancelled")
               ELSE EndsWith(r, "ConnectionFailed")

\* a run has ended after five failed attempts to reopen the port
C10_Witness ==
    /\ Ended(MainView)
    /\ ReopenFailed(MainView)
    /\ ~hist.cancelReq
    /\ EndsWith(MainView, "ConnectionFailed")

----------------------------------------------------------------------------
(* The transparent reopen                                                  *)

SyncStagePcs ==
    {"idle", "start", "open", "enterBoot", "emitSyncing", "sync_write",
     "sync_wait", "sync_drain", "reopenClose", "reopen"}

\* the first round gave up, the port was reopened and the second
\* syncWithRetry has returned; the run has not failed since
SecondRoundSucceeded ==
    /\ ~w.syncSucceeded
    /\ w.pc \notin SyncStagePcs
    /\ w.pc # "emitError"
    /\ ~(w.pc = "done" /\ LastEvent(MainView).type = "Error")

Types(ev) == [i \in 1..Len(ev) |-> ev[i].type]

\* C11: if the first sync round fails but a reopen attempt and the second
\* round succeed, no Error is emitted for the failed round: the run has
\* emitted Connecting, Syncing, Syncing, nothing else before these and no
\* Error, the first round gave up exactly once, and the run goes on with
\* the stages after the sync (a run that fails in none of them ends with
\* Complete).
C11_TransparentReopen ==
    SecondRoundSucceeded =>
        /\ hist.exhausted = 1
        /\ Len(events) >= 3
        /\ SubSeq(Types(events), 1, 3) = <<"Connecting", "Syncing", "Syncing">>
        /\ Count(events, "Syncing") = 2
        /\ ~HasEvent(events, "Error")
        /\ m_connection = "open" \/ w.pc \in {"emitComplete", "cleanupOk", "done"}
        /\ Ended(MainView) => LastEvent(MainView).type = "Complete"

\* a run whose first round failed has ended with Complete
C11_Witness ==
    /\ SecondRoundSucceeded
    /\ hist.exhausted = 1
    /\ Ended(MainView)
    /\ LastEvent(MainView).type = "Complete"
    /\ HasEvent(events, "Flashing")

----------------------------------------------------------------------------
(* Termination                                                             *)

\* C12: every accepted run terminates, whatever the device does on the
\* read side and on the write side: a service that is flashing comes to
\* reset m_isFlashing, and a worker that is running comes to return.
C12_EveryRunTerminates ==
    /\ m_isFlashing ~> ~m_isFlashing
    /\ Live(w.pc) ~> ~Live(w.pc)

----------------------------------------------------------------------------
(* Round trips of the codec                                                *)

\* process has been called with encode(rawData) and has returned
ProcessedPacket == slipPacket # {} /\ feed = {<<>>}

Holds(bytes, byte) == \E i \in 1..Len(bytes) : bytes[i] = byte

\* C13: for every byte sequence x, the empty one and those that hold 0xC0
\* and 0xDB included, decode(encode(x)) = x.
C13_OneShotRoundTrip ==
    /\ slipPacket # {} => slipPacket = {encode(rawData)}
    /\ decoded # {} => decoded = {rawData}

\* a sequence that holds both special bytes has made the round trip
C13_Witness ==
    /\ decoded = {rawData}
    /\ Holds(rawData, FRAME_END)
    /\ Holds(rawData, FRAME_ESCAPE)
    /\ Len(rawData) = MaxLen

\* C14 as stated: fed byte by byte to a fresh SLIPDecoder, encode(x) yields
\* exactly one frame, equal to x, for every byte sequence x.
C14_StreamingRoundTrip ==
    ProcessedPacket => packets = <<rawData>>

\* C14: fed byte by byte to a fresh SLIPDecoder, encode(x) yields exactly
\* one frame, equal to x, for every byte sequence x that is not empty; the
\* encoding of the empty sequence yields no frame.
C14_StreamingRoundTripNonEmpty ==
    /\ ProcessedPacket =>
           packets = IF rawData = <<>> THEN <<>> ELSE <<rawData>>
    /\ (slipPacket # {} /\ feed # {} /\ feed # {<<>>}) => packets = <<>>

\* a sequence that holds both special bytes has come out of the decoder
C14_Witness ==
    /\ ProcessedPacket
    /\ packets = <<rawData>>
    /\ Holds(rawData, FRAME_END)
    /\ Holds(rawData, FRAME_ESCAPE)

\* the byte the next iteration of process hands to processByte
NextByte == {Head(rest) : rest \in {r \in feed : r # <<>>}}

\* C15: the streaming decoder never yields an empty frame, whatever the
\* input stream: a FRAME_END that meets an empty buffer yields nothing and
\* leaves the decoder at the start of a frame with an empty buffer (in
\* every iteration of process that is handed one), so a run of them
\* collapses into one frame start.
C15_NoEmptyFrame ==
    /\ [](\A i \in 1..Len(packets) : packets[i] # <<>>)
    /\ [][(NextByte = {FRAME_END} /\ m_buffer = <<>> /\ feed' # feed)
             => /\ packets' = packets
                /\ m_packetStarted'
                /\ m_buffer' = <<>>]_vars

\* a stream that starts with a run of FRAME_END has been taken in: the run
\* has yielded nothing, the frame behind it is the one packet
C15_Witness ==
    /\ slipPacket = {}
    /\ feed = {<<>>}
    /\ rawData = <<FRAME_END, FRAME_END, 1, FRAME_END>>
    /\ packets = <<<<1>>>>

----------------------------------------------------------------------------
(* The packet layer                                                        *)

\* the XOR of all bytes of a sequence: bit k of it is set iff an odd number
\* of the bytes have bit k set
XorAll(bytes) ==
    LET Odd(k) == Cardinality({i \in 1..Len(bytes) :
                                   (bytes[i] \div (2 ^ k)) % 2 = 1}) % 2
    IN Odd(0) + 2 * Odd(1) + 4 * Odd(2) + 8 * Odd(3) + 16 * Odd(4)
       + 32 * Odd(5) + 64 * Odd(6) + 128 * Odd(7)

\* C16: calculateChecksum is the XOR of all bytes seeded with 0xEF, a
\* 32-bit value whose upper 24 bits are zero: checksum(empty) = 0xEF,
\* checksum([0xEF]) = 0, and checksum XOR 0xEF is the XOR of all bytes.
C16_ChecksumIsSeededXor ==
    arg.fn = "calculateChecksum" =>
        \A sum \in ret :
            /\ sum \in 0..255
            /\ BitXor(sum, 239) = XorAll(arg.data)
            /\ arg.data = <<>> => sum = 239
            /\ arg.data = <<239>> => sum = 0

\* the checksum of the one byte 0xEF has been computed
C16_Witness ==
    /\ arg = ChecksumCall(<<239>>)
    /\ ret = {0}

\* the length of the payload of each command
PayloadSize(frame) ==
    CASE frame.op = Sync -> 36
      [] frame.op = ReadReg -> 4
      [] frame.op = WriteReg -> 16
      [] frame.op = ChangeBaudRate -> 8
      [] frame.op = SpiAttach -> 8
      [] frame.op = FlashBegin -> 20
      [] frame.op = FlashData -> 16 + Len(frame.args[5].bytes)
      [] OTHER -> 4

\* C17: every built command is an 8-byte header and its payload: byte 0 is
\* 0x00, byte 1 the opcode, bytes 2-3 the length of the payload (LE16),
\* bytes 4-7 the checksum (LE32): the seeded XOR of the block for
\* FLASH_DATA, 0 for every other command.  SYNC is 44 bytes with length
\* field 24 00; FLASH_DATA of 1024 zero bytes carries checksum 0xEF.
C17_CommandLayout ==
    arg.fn = "build" =>
        \A p \in ret :
            LET frame == arg.command IN
            /\ Len(p) = 8 + PayloadSize(frame)
            /\ p[1] = 0
            /\ p[2] = frame.op
            /\ p[3] + 256 * p[4] = Len(p) - 8
            /\ SubSeq(p, 9, Len(p)) = Payload(frame)
            /\ SubSeq(p, 5, 8)
                   = IF frame.op = FlashData
                     THEN <<BitXor(XorAll(frame.args[5].bytes), 239), 0, 0, 0>>
                     ELSE <<0, 0, 0, 0>>
            /\ frame.op = Sync =>
                   /\ Len(p) = 44
                   /\ SubSeq(p, 1, 4) = <<0, 8, 36, 0>>
            /\ (frame.op = FlashData /\ frame.args[5].bytes = ZeroBlock) =>
                   /\ Len(p) = 8 + 16 + 1024
                   /\ SubSeq(p, 1, 8) = <<0, 3, 16, 4, 239, 0, 0, 0>>

\* FLASH_DATA of a block of 1024 zero bytes has been built
C17_Witness ==
    /\ arg.fn = "build"
    /\ arg.command.op = FlashData
    /\ arg.command.args[5].bytes = ZeroBlock
    /\ \E p \in ret : SubSeq(p, 5, 8) = <<239, 0, 0, 0>>

\* C18: parse accepts a frame iff it has at least 8 bytes and its first
\* byte is 0x01; it yields opcode = byte 1, size = LE16(bytes 2-3), value =
\* LE32(bytes 4-7), data = bytes[8 : 8+size] cut at the end of the frame,
\* status = data[0] and error = data[1] (0 where data has no such byte),
\* and isSuccess holds iff status = 0 and error = 0.
C18_ParseLayout ==
    arg.fn = "parse" =>
        \A opt \in ret :
            LET p == arg.packet IN
            /\ opt # {} <=> (Len(p) >= 8 /\ p[1] = 1)
            /\ \A r \in opt :
                   /\ r.command = p[2]
                   /\ r.size = p[3] + 256 * p[4]
                   /\ r.value = W32(p[7] + 256 * p[8], p[5] + 256 * p[6])
                   /\ r.data = [i \in 1..Min(r.size, Len(p) - 8) |-> p[8 + i]]
                   /\ r.status = IF Len(r.data) >= 1 THEN r.data[1] ELSE 0
                   /\ r.error = IF Len(r.data) >= 2 THEN r.data[2] ELSE 0
                   /\ isSuccess(r) <=> (r.status = 0 /\ r.error = 0)

\* a response whose size field runs past the end of the frame and whose
\* data section starts with a status byte has been parsed
C18_Witness ==
    /\ arg.fn = "parse"
    /\ \E opt \in ret : \E r \in opt :
           /\ r.size > Len(r.data)
           /\ Len(r.data) >= 2
           /\ r.status = 1
           /\ r.error = 5
           /\ ~isSuccess(r)

----------------------------------------------------------------------------
(* Exclusive access to the device                                          *)

\* open has returned and close has not been called
Opened(c) == isConnected(c) /\ c \notin opening

\* C19: at any time at most one open SerialConnection holds the exclusive
\* lock on a device path, and every open one holds the lock of its path; an
\* open on a path whose lock is held fails with CannotOpen, leaves the
\* connection not connected and the lock with its holder; close releases
\* the lock, so that a later open can succeed.
C19_ExclusiveLock ==
    /\ [](\A p \in DevicePaths :
              /\ Cardinality(flocks[p]) <= 1
              /\ Cardinality({c \in Connections : Opened(c) /\ m_fd[c] = p}) <= 1
              /\ \A c \in flocks[p] : m_fd[c] = p)
    /\ [](\A c \in Connections :
              /\ Opened(c) => flocks[m_fd[c]] = {c}
              /\ (outcome[c] = "CannotOpen" /\ c \notin opening)
                     => ~isConnected(c))
    /\ [][\A c \in Connections :
              /\ (c \in opening /\ c \notin opening' /\ flocks[m_fd[c]] # {})
                     => /\ outcome'[c] = "CannotOpen"
                        /\ ~isConnected(c)'
                        /\ flocks' = flocks
              /\ (c \in opening /\ c \notin opening' /\ flocks[m_fd[c]] = {})
                     => /\ outcome'[c] = "opened"
                        /\ Opened(c)'
              /\ (Opened(c) /\ ~isConnected(c)')
                     => flocks'[m_fd[c]] = {}]_vars

\* the viewer has the device that the worker had opened and closed before,
\* and the other process was turned away from it
C19_Witness ==
    \E p \in DevicePaths :
        /\ released[p]
        /\ flocks[p] = {"viewer"}
        /\ Opened("viewer")
        /\ outcome["worker"] = "opened"
        /\ ~isConnected("worker")
        /\ outcome["other"] = "CannotOpen"

----------------------------------------------------------------------------
(* Bundles from a build directory                                          *)

\* the canonical files a directory holds, as table indices
Present(dir) == {i \in 1..Len(fileOffsets) : dir[fileOffsets[i].name].exists}

\* C20: a bundle built from a directory holds exactly the images present
\* among bootloader.bin@0x0000, partitions.bin@0x8000, firmware.bin@0x10000,
\* sorted by offset; it is complete iff all three are present; the
\* construction fails with NoFilesFound when none of them is present and
\* with MissingFirmware when some are but firmware.bin is not.
C20_BundleFromDirectory ==
    arg.fn = "fromPlatformIOBuild" =>
        \A r \in ret :
            LET dir == arg.dirPath IN
            IF Present(dir) = {}
            THEN r = [error |-> "NoFilesFound"]
            ELSE IF ~dir["firmware.bin"].exists
            THEN r = [error |-> "MissingFirmware"]
            ELSE /\ DOMAIN r = {"images"}
                 /\ Len(r.images) = Cardinality(Present(dir))
                 /\ \A i \in Present(dir) :
                        \E k \in 1..Len(r.images) :
                            r.images[k] = Image(fileOffsets[i].offset,
                                                dir[fileOffsets[i].name].size)
                 /\ \A k \in 1..(Len(r.images) - 1) :
                        r.images[k].offset < r.images[k + 1].offset
                 /\ isComplete(r.images) <=> Cardinality(Present(dir)) = 3

----------------------------------------------------------------------------
(* The watchdog-disable sequence                                           *)

RegisterOps == {ReadReg, WriteReg}

\* the commands that follow the sync stage
LaterOps == {SpiAttach, ChangeBaudRate, FlashBegin}

\* the register commands written before the i-th frame
RegisterCommandsBefore(wr, i) ==
    Cardinality({j \in 1..(i - 1) : wr[j].op \in RegisterOps})

\* those of them that were answered successfully
RegisterCommandsDone(wr, acked, i) ==
    Cardinality({j \in 1..(i - 1) : wr[j].op \in RegisterOps /\ j \in acked})

\* C21: on a USB-JTAG-Serial device a READ_REG or WRITE_REG of the
\* watchdog-disable sequence that fails (error status, timeout, cancel)
\* ends the run with an Error, and no SPI_ATTACH, CHANGE_BAUDRATE or
\* FLASH_BEGIN is written unless the whole sequence was completed: a wait
\* for a register response is left for the next register command or for
\* the outer handler, and every later command on the wire has the eight
\* register commands before it, each answered successfully.
C21_WatchdogFailureEndsRun ==
    /\ [](w.usb =>
            \A i \in 1..Len(wire) :
                wire[i].op \in LaterOps =>
                    RegisterCommandsDone(wire, hist.acked, i)
                        = WATCHDOG_COMMANDS)
    /\ [][(w.pc = "wd_wait" /\ w.wd < WATCHDOG_COMMANDS /\ w'.pc # "wd_wait")
             => w'.pc \in {"wd_write", "emitError"}]_vars

\* the register commands on the wire, in the order they were written
RegisterFrames(wr) == SelectSeq(wr, LAMBDA f : f.op \in RegisterOps)

\* v with only bit 31 cleared, v with only bit 31 set
ClearBit31(v) == W32(v[1] % 32768, v[2])
SetBit31(v) == W32((v[1] % 32768) + 32768, v[2])

\* the k-th command of the sequence as the specification lists it; v is the
\* value the preceding READ_REG returned
ListedCommand(k, v) ==
    CASE k = 1 -> buildWriteRegCommand(RTC_WDT_WPROTECT, W32(20696, 15009))
      [] k = 2 -> buildReadRegCommand(RTC_WDT_CONFIG0)
      [] k = 3 -> buildWriteRegCommand(RTC_WDT_CONFIG0, ClearBit31(v))
      [] k = 4 -> buildWriteRegCommand(RTC_WDT_WPROTECT, W32(0, 0))
      [] k = 5 -> buildWriteRegCommand(SWD_WPROTECT, W32(36637, 12586))
      [] k = 6 -> buildReadRegCommand(SWD_CONF)
      [] k = 7 -> buildWriteRegCommand(SWD_CONF, SetBit31(v))
      [] k = 8 -> buildWriteRegCommand(SWD_WPROTECT, W32(0, 0))

\* the register commands of a run are the listed ones from the first on, in
\* order, each at most once, with only SYNC before them and nothing between
InListedOrder(wr) ==
    LET regs == RegisterFrames(wr) IN
    /\ Len(regs) <= 8
    /\ \A k \in 1..Len(regs) : \E v \in RegValues : regs[k] = ListedCommand(k, v)
    /\ \A i \in 1..Len(wr) :
           wr[i].op \in RegisterOps =>
               /\ \A j \in 1..(i - 1) : wr[j].op \in RegisterOps \cup {Sync}
               /\ RegisterCommandsBefore(wr, i) > 0 => wr[i - 1].op \in RegisterOps

\* a frame was written at this step
Wrote(frame) == Len(wire') = Len(wire) + 1 /\ wire'[Len(wire')] = frame

----------------------------------------------------------------------------
(* The order of the commands of the flash stage                            *)

\* the places of the frames with this opcode in the log
Places(wr, op) == {i \in 1..Len(wr) : wr[i].op = op}

\* the FLASH_BEGIN frames on the wire, in the order they were written
Begins(wr) == SelectSeq(wr, LAMBDA f : f.op = FlashBegin)

\* the number of the image whose blocks follow the i-th frame
ImageAt(wr, i) == Cardinality({j \in Places(wr, FlashBegin) : j <= i})

\* the i-th frame is block k of image m
IsBlock(wr, i, m, k) ==
    /\ wr[i].op = FlashData
    /\ wr[i].args[5].img = m
    /\ wr[i].args[2] = k

\* an answer is the answer to the frame written last, and it is there before
\* the next frame is written
AnswersInTurn ==
    (runs' = runs /\ hist'.acked # hist.acked)
        => (hist'.acked = hist.acked \cup {Len(wire)} /\ wire' = wire)

\* C23: SPI_ATTACH is written and answered successfully before any
\* FLASH_BEGIN; the images are taken in ascending offset order, each
\* once; an image's FLASH_BEGIN is answered successfully before its first
\* FLASH_DATA; block k+1 is written only after block k was answered
\* successfully; FLASH_END is written only after every block of every
\* image was acknowledged.
C23_FlashStageOrder ==
    /\ [](/\ \A i \in Places(wire, FlashBegin) :
                \E j \in Places(wire, SpiAttach) : j < i /\ j \in hist.acked
          /\ Len(Begins(wire)) <= Len(w.firmware)
          /\ \A m \in 1..Len(Begins(wire)) :
                /\ Begins(wire)[m].args[4] = w.firmware[m].offset
                /\ m > 1 => Begins(wire)[m - 1].args[4] < Begins(wire)[m].args[4]
          /\ \A i \in Places(wire, FlashData) :
                LET m == ImageAt(wire, i)
                    k == wire[i].args[2]
                IN /\ m >= 1
                   /\ IsBlock(wire, i, m, k)
                   /\ i - 1 \in hist.acked
                   /\ IF k = 0
                      THEN wire[i - 1].op = FlashBegin
                      ELSE IsBlock(wire, i - 1, m, k - 1)
          /\ \A i \in Places(wire, FlashEnd) :
                /\ Len(Begins(wire)) = Len(w.firmware)
                /\ \A m \in 1..Len(w.firmware) :
                       \A k \in 0..(NumBlocks(w.firmware[m]) - 1) :
                           \E j \in 1..(i - 1) :
                               IsBlock(wire, j, m, k) /\ j \in hist.acked)
    /\ [][AnswersInTurn]_vars

\* FLASH_END is on the wire of a run that had two images to flash
C23_Witness ==
    /\ Len(w.firmware) = 2
    /\ HasFrame(wire, FlashEnd)
    /\ Cardinality(Places(wire, FlashData)) = 6

----------------------------------------------------------------------------
(* Blocks of an image                                                      *)

\* ceil(s / 1024), by its definition
CeilBlocks(s) == CHOOSE n \in 0..s : n * 1024 >= s /\ (n > 0 => (n - 1) * 1024 < s)

RECURSIVE JoinBlocks(_, _)
\* the bytes of the FLASH_DATA frames from the i-th frame on, concatenated
JoinBlocks(frames, i) ==
    IF i > Len(frames)
    THEN <<>>
    ELSE frames[i].args[5].bytes \o JoinBlocks(frames, i + 1)

\* C24: for an image of size s at offset o FLASH_BEGIN carries
\* (s, n, 1024, o, 0) with n = ceil(s/1024); exactly n FLASH_DATA are
\* written, numbered 0 .. n-1 in order, each with exactly 1024 bytes: block
\* k holds the image bytes [k*1024, min((k+1)*1024, s)) followed by 0xFF
\* only; the blocks concatenated and cut to s bytes are the image.
C24_BlockSlicing ==
    arg.fn = "flashImage" =>
        \A frames \in ret :
            LET s == arg.image.size
                n == CeilBlocks(s)
            IN /\ frames[1] = Frame(FlashBegin, <<s, n, 1024, arg.image.offset, 0>>)
               /\ Len(frames) <= n + 1
               /\ Len(frames) < n + 1 <=> ENABLED FlashImageBlock
               /\ \A k \in 0..(Len(frames) - 2) :
                      LET f == frames[k + 2] IN
                      /\ f.op = FlashData
                      /\ f.args[1] = 1024
                      /\ f.args[2] = k
                      /\ f.args[3] = 0 /\ f.args[4] = 0
                      /\ Len(f.args[5].bytes) = 1024
                      /\ \A j \in 1..1024 :
                             f.args[5].bytes[j] =
                                 IF k * 1024 + j <= s
                                 THEN arg.image.data[k * 1024 + j]
                                 ELSE 255
               /\ Len(frames) = n + 1 =>
                      SubSeq(JoinBlocks(frames, 2), 1, s) = arg.image.data

\* the last of two blocks holds one byte of the image, and the image has
\* 0xFF bytes of its own
C24_Witness ==
    /\ arg.fn = "flashImage"
    /\ arg.image.size = 1025
    /\ arg.image.data[256] = 255
    /\ \E frames \in ret :
           /\ Len(frames) = 3
           /\ frames[3].args[5].bytes[1] = 0
           /\ frames[3].args[5].bytes[2] = 255

----------------------------------------------------------------------------
(* Retries                                                                 *)

\* C25: a FLASH_DATA block that fails (error status or timeout) aborts the
\* run and is not sent again: the run goes to its Error, and neither
\* FLASH_DATA nor FLASH_BEGIN nor FLASH_END is written after it; in a whole
\* run no command but SYNC is written a second time.
C25_NoBlockRetry ==
    /\ [](/\ \A i \in Places(wire, FlashData) :
                i \notin hist.acked => i = Len(wire)
          /\ \A i, j \in 1..Len(wire) :
                (i < j /\ wire[i] = wire[j]) => wire[i].op = Sync)
    /\ [][(w.pc = "data_wait" /\ w'.pc # "data_wait"
             /\ hist'.acked = hist.acked)
            => w'.pc = "emitError"]_vars

\* the second block of an image was answered with an error status after
\* the first was acknowledged, and the run has emitted its Error
C25_Witness ==
    /\ w.pc = "done"
    /\ w.msg.kind = "FlashDataFailed"
    /\ wire[Len(wire)].op = FlashData
    /\ wire[Len(wire)].args[2] = 1
    /\ Len(wire) \notin hist.acked
    /\ Len(wire) - 1 \in hist.acked

----------------------------------------------------------------------------
(* Progress                                                                *)

\* the Flashing events of a run, in order
FlashingEvents(ev) == SelectSeq(ev, LAMBDA e : e.type = "Flashing")

RECURSIVE BlocksFrom(_, _, _)
\* the blocks of a bundle in the order they are flashed, as <<image, block>>
BlocksFrom(firmware, m, k) ==
    IF m > Len(firmware)
    THEN <<>>
    ELSE IF k * 1024 >= firmware[m].size
    THEN BlocksFrom(firmware, m + 1, 0)
    ELSE <<<<m, k>>>> \o BlocksFrom(firmware, m, k + 1)

\* the fraction num/den is (b + ((k+1)/n) * s) / t
IsProgress(num, den, b, k, n, s, t) == num * (n * t) = den * (b * n + (k + 1) * s)

\* C26: the progress values of the Flashing events of a run are
\* (bytesFlashed + ((blockNum+1)/num_blocks) * image.size) / totalSize with
\* bytesFlashed the sizes of the images done before; they lie in (0, 1],
\* never decrease, go on across images, and the value is exactly 1 at the
\* last block of the last image; a single image of 2048 bytes gives 0.5,
\* then 1.0.
C26_ProgressAccumulates ==
    LET F == FlashingEvents(events)
        B == BlocksFrom(w.firmware, 1, 0)
        t == SumSizes(w.firmware)
    IN /\ Len(F) <= Len(B)
       /\ \A i \in 1..Len(F) :
              LET m == B[i][1]
                  k == B[i][2]
                  s == w.firmware[m].size
              IN /\ F[i].den > 0
                 /\ 0 < F[i].num /\ F[i].num <= F[i].den
                 /\ IsProgress(F[i].num, F[i].den,
                               SumSizes(SubSeq(w.firmware, 1, m - 1)),
                               k, CeilBlocks(s), s, t)
                 /\ i > 1 => F[i - 1].num * F[i].den <= F[i].num * F[i - 1].den
                 /\ i = Len(B) <=> F[i].num = F[i].den
       /\ w.firmware = <<Image(65536, 2048)>> =>
              \A i \in 1..Len(F) : 2 * F[i].num = i * F[i].den

\* the last block of the second image has been announced
C26_Witness ==
    /\ Len(w.firmware) = 2
    /\ Len(FlashingEvents(events)) = 6
    /\ events[Len(events)].type = "Flashing"
    /\ events[Len(events)].num = events[Len(events)].den

----------------------------------------------------------------------------
(* The baud change                                                         *)

\* C27: CHANGE_BAUDRATE(new, 115200) is written iff the target baud is not
\* 115200.  Then ChangingBaudRate is emitted first, the host changes its
\* line speed only after the command was written, and a SYNC at the new
\* speed is answered successfully before SPI_ATTACH is written.  With
\* target 115200 there is no ChangingBaudRate event, no CHANGE_BAUDRATE on
\* the wire, and the host stays at 115200.
C27_BaudChange ==
    /\ [](/\ \A i \in Places(wire, ChangeBaudRate) :
                /\ w.baudRate # 115200
                /\ wire[i] = Frame(ChangeBaudRate, <<w.baudRate, 115200>>)
                /\ HasEvent(events, "ChangingBaudRate")
          /\ Cardinality(Places(wire, ChangeBaudRate)) <= 1
          /\ w.m_currentBaudRate # 115200 =>
                /\ w.m_currentBaudRate = w.baudRate
                /\ HasFrame(wire, ChangeBaudRate)
          /\ \A i \in Places(wire, SpiAttach) :
                IF w.baudRate = 115200
                THEN Places(wire, ChangeBaudRate) = {}
                ELSE /\ i >= 3
                     /\ wire[i - 2].op = ChangeBaudRate
                     /\ wire[i - 1].op = Sync
                     /\ i - 1 \in hist.acked
          /\ w.baudRate = 115200 =>
                /\ ~HasEvent(events, "ChangingBaudRate")
                /\ w.m_currentBaudRate = 115200)
    /\ [][/\ (w.pc = "sync_write" /\ w.ctx = "baud" /\ Len(wire') > Len(wire))
              => (Wrote(buildSyncCommand) /\ w.m_currentBaudRate = w.baudRate)
          /\ (w.pc = "spi_write" /\ w.baudRate # 115200
                 /\ Len(wire') > Len(wire))
              => w.m_currentBaudRate = w.baudRate]_vars

\* SPI_ATTACH was written at 921600 baud
C27_Witness ==
    /\ w.baudRate = 921600
    /\ w.m_currentBaudRate = 921600
    /\ HasFrame(wire, SpiAttach)
    /\ HasEvent(events, "ChangingBaudRate")

----------------------------------------------------------------------------
(* The finish                                                              *)

\* the blocks a bundle has
TotalBlocks(firmware) == Len(BlocksFrom(firmware, 1, 0))

\* C28: FLASH_END is written once, with flag word 0 (reboot), after all
\* blocks were acknowledged; a FLASH_END that gets no response within its
\* deadline gives no Error, and the run still emits Complete; the hard
\* reset runs after FLASH_END iff the device is USB-JTAG-Serial.
C28_FlashEndAndReset ==
    /\ [](/\ Cardinality(Places(wire, FlashEnd)) <= 1
          /\ \A i \in Places(wire, FlashEnd) :
                /\ wire[i] = Frame(FlashEnd, <<0>>)
                /\ Cardinality(Places(wire, FlashData) \cap hist.acked)
                       = TotalBlocks(w.firmware)
                /\ i = Len(wire)
          /\ w.pc = "hardReset" => (w.usb /\ HasFrame(wire, FlashEnd))
          /\ (w.pc = "done" /\ HasFrame(wire, FlashEnd)) =>
                /\ events[Len(events)].type = "Complete"
                /\ ~HasEvent(events, "Error"))
    /\ [][/\ (w.pc = "end_wait" /\ w'.pc # "end_wait")
              => w'.pc = (IF w.usb THEN "hardReset" ELSE "emitComplete")
          /\ (w.pc = "hardReset" /\ w'.pc # "hardReset")
              => w'.pc = "emitComplete"]_vars

\* a run on a USB-JTAG-Serial device has ended with Complete, and its
\* FLASH_END was not answered
C28_Witness ==
    /\ w.pc = "done"
    /\ w.usb
    /\ HasEvent(events, "Complete")
    /\ wire[Len(wire)].op = FlashEnd
    /\ Len(wire) \notin hist.acked

----------------------------------------------------------------------------
(* One call of syncWithRetry                                               *)

\* the attempts of the call that have ended in failure
FailedAttempts ==
    IF ret = {Thrown(Msg("FailedToSync", 0, 0))} THEN w.attempt ELSE w.attempt - 1

\* C29: one call of syncWithRetry makes at most 20 attempts and writes one
\* SYNC frame per attempt; it stops at the first attempt whose response is
\* a success, makes at most 7 drain waits after it and then flushes; it
\* reports failure only after 20 failed attempts.
C29_SyncWithRetry ==
    /\ [](arg = SyncCall =>
            /\ w.attempt \in 1..20
            /\ \A i \in 1..Len(wire) : wire[i] = buildSyncCommand
            /\ Len(wire) + hist.writeFailures
                   = (IF w.pc = "sync_write" THEN w.attempt - 1 ELSE w.attempt)
            /\ w.drain \in 0..7
            /\ ret = {Returned(Response(0, 0, Zero32))} =>
                   (w.drain = 7 /\ FailedAttempts = w.attempt - 1)
            /\ ret = {Thrown(Msg("FailedToSync", 0, 0))} =>
                   (w.attempt = 20 /\ FailedAttempts = 20)
            /\ ret # {} <=> w.pc = "done")
    /\ [][arg = SyncCall =>
            /\ w.pc \in {"sync_drain", "done"} =>
                   (wire' = wire /\ w'.attempt = w.attempt
                    /\ w'.pc \in {"sync_drain", "done"})
            /\ w'.attempt \in {w.attempt, w.attempt + 1}
            /\ Len(wire') \in {Len(wire), Len(wire) + 1}
            /\ (w.pc = "sync_drain" /\ w'.pc = "done") => w.drain = 7]_vars

\* the call has returned after 19 failed attempts, two of which could not
\* write their frame
C29_Witness ==
    /\ arg = SyncCall
    /\ ret = {Returned(Response(0, 0, Zero32))}
    /\ w.attempt = 20
    /\ Len(wire) = 18
    /\ hist.writeFailures = 2

----------------------------------------------------------------------------
(* One call of waitForResponse                                             *)

\* the i-th packet that arrived is a response frame with the opcode asked for
Matching(i) ==
    /\ Len(packets[i]) >= 8
    /\ packets[i][1] = 1
    /\ packets[i][2] = arg.command

\* how a call ends: with the first matching frame, parsed, or, if none has
\* arrived, with an exception of one of these kinds
EndsWith30(kinds) ==
    arg.fn = "waitForResponse" =>
        /\ \A o \in ret :
              IF ~o.threw
              THEN \E i \in 1..Len(packets) :
                      /\ Matching(i)
                      /\ \A j \in 1..(i - 1) : ~Matching(j)
                      /\ o.response \in parse(packets[i])
                      /\ o.response.direction = 1
                      /\ o.response.command = arg.command
              ELSE /\ \A i \in 1..Len(packets) : ~Matching(i)
                   /\ o.msg.kind \in kinds
                   /\ o.msg.kind = "Cancelled" => m_isCancelled
        /\ ret = {} => \A i \in 1..Len(packets) : ~Matching(i)

\* C30 as stated: waitForResponse returns only a parsed response frame
\* (direction 0x01) with the requested opcode, the first such frame in
\* arrival order; other frames are discarded; if no matching frame arrives
\* the call ends with Timeout at the deadline, or with Cancelled if the
\* cancel flag is seen set at a poll.
C30_FirstMatchingFrame == EndsWith30({"Timeout", "Cancelled"})

\* C30, amended: as above, and a call may also end with the error of a
\* read() that fails.
C30_FirstMatchingFrameOrReadError ==
    EndsWith30({"Timeout", "Cancelled", "ReadFailed"})

\* the third frame that arrived was returned: the first was too short to
\* parse, the second was in request direction
C30_Witness ==
    /\ arg = WaitCall(Sync)
    /\ Len(packets) = 3
    /\ packets[1] = <<RESPONSE, Sync, 0>>
    /\ packets[2][1] = REQUEST
    /\ packets[3] = ResponsePacket(Sync, FRAME_END, 1)
    /\ \E o \in ret : ~o.threw /\ o.response.status = 1

\* no delimiter among the bytes
NoEnd(bytes) == \A i \in 1..Len(bytes) : bytes[i] # FRAME_END

\* C31: noise without an END byte, then encode(x1) .. encode(xn) with
\* non-empty payloads, fed to a decoder that was just constructed or just
\* reset, in pieces of any length: the frames given out are at every moment
\* the first of x1..xn in order, and all of them once the stream is through
C31_StreamingFramesInOrder ==
    NoEnd(arg.junk) =>
        /\ Len(packets) <= Len(arg.payloads)
        /\ packets = SubSeq(arg.payloads, 1, Len(packets))
        /\ feed = {<<>>} => packets = arg.payloads

\* two frames behind noise have come out of the decoder
C31_Witness ==
    /\ arg.junk # <<>>
    /\ NoEnd(arg.junk)
    /\ Len(arg.payloads) = 2
    /\ feed = {<<>>}
    /\ packets = arg.payloads

\* the streaming decoder takes a byte that is not among `excepted` while a
\* frame is started and the escape flag is set: the byte goes to the frame
\* as it is, the flag is cleared, the frame goes on and nothing is given out
StreamingVerbatim(excepted) ==
    \A rest \in feed :
        (/\ rest # <<>>
         /\ feed' = {Tail(rest)}
         /\ m_packetStarted
         /\ m_inEscape
         /\ Head(rest) \notin excepted)
        => /\ m_buffer' = Append(m_buffer, Head(rest))
           /\ m_inEscape' = FALSE
           /\ m_packetStarted'
           /\ packets' = packets

\* the one-shot decoder at such a byte, at any place of rawData and with
\* any frame so far: it goes on as with the byte appended and the flag
\* cleared
OneShotVerbatim(excepted) ==
    \A i \in 1..Len(rawData) :
        \A out \in {<<>>, <<1>>, <<FRAME_ESCAPE>>} :
            rawData[i] \notin excepted
            => decodeLoop(rawData, i, out, TRUE, TRUE)
               = decodeLoop(rawData, i + 1, Append(out, rawData[i]), FALSE,
                            TRUE)

\* C32 as stated: in both decoders every byte but ESC_END and ESC_ESC that
\* follows an ESC inside a started frame is appended verbatim, the escape
\* state is cleared and no error is signalled
C32_InvalidEscapeVerbatim ==
    /\ [][StreamingVerbatim({ESCAPED_END, ESCAPED_ESCAPE})]_vars
    /\ [](OneShotVerbatim({ESCAPED_END, ESCAPED_ESCAPE}))

\* C32 with the bytes that are looked at before the escape state left out:
\* END in both decoders, and ESC in the streaming decoder
C32_InvalidEscapeVerbatimUnlessDelimiter ==
    /\ [][StreamingVerbatim({ESCAPED_END, ESCAPED_ESCAPE, FRAME_END,
                             FRAME_ESCAPE})]_vars
    /\ [](OneShotVerbatim({ESCAPED_END, ESCAPED_ESCAPE, FRAME_END}))

\* both decoders have turned END ESC 01 END into the frame 01
C32_Witness ==
    /\ rawData = <<FRAME_END, FRAME_ESCAPE, 1, FRAME_END>>
    /\ decoded = {<<1>>}
    /\ feed = {<<>>}
    /\ packets = <<<<1>>>>
    /\ ~m_inEscape

C40_DecodersAgree ==
    (decoded # {} /\ feed = {<<>>} /\ packets # <<>>) => decoded = {packets[1]}

\* C37: a parsed response counts as a success only if the loader reported a
\* status and an error byte and both are 0: a frame whose data section has
\* fewer than two bytes is not a success
C37_SuccessNeedsStatusBytes ==
    arg.fn = "parse" =>
        \A opt \in ret : \A r \in opt : isSuccess(r) => Len(r.data) >= 2

\* C38: m_isFlashing is true from the accepted flash() until the run has
\* emitted its terminal event, so that no run is accepted, and no event of
\* a new run is emitted, while an earlier run has still to emit its own
C38_FlashingUntilTerminal ==
    /\ Unfinished => m_isFlashing
    /\ ~Pending
    /\ \A t \in tails : t.pc # "done" => events = <<>>

\* C36: a bundle that fails validation is reported as InvalidFirmware when
\* it is loaded, and no FLASH_BEGIN or FLASH_DATA frame of a run is built
\* from an image of such a bundle
C36_InvalidFirmwareNeverFlashed ==
    /\ [][\A firmware \in m_firmwareFile' :
              (m_firmwareFile' # m_firmwareFile /\ ~isValid(firmware))
              => m_currentState'.errorType = "InvalidFirmware"]_vars
    /\ []((arg.fn = "flashImage" /\ ret # {}) => isValid(<<arg.image>>))

----------------------------------------------------------------------------
(* The control lines: claims                                               *)

\* the calls of portLog that the run under way has made
RECURSIVE LastMade(_, _)
LastMade(log, i) ==
    IF i = 0 THEN 0
    ELSE IF log[i].call = "SerialConnection" THEN i
    ELSE LastMade(log, i - 1)

OfThisRun(log) == SubSeq(log, LastMade(log, Len(log)) + 1, Len(log))

IsLineCall(e) == e.call \in LineCalls

CallsIn(log) == {log[i].call : i \in 1..Len(log)}

\* C33: open, close, read, write, flush and setBaudRate leave the DTR and RTS
\* lines as they found them, and during a run the lines change only in a
\* step of the bootloader-entry routine or of the hard-reset routine, so not
\* in the close and the open of the reopen after a failed sync.
C33_LinesMoveOnlyInResetRoutines ==
    /\ [](\A i \in 2..Len(portLog) :
            ~IsLineCall(portLog[i]) =>
                /\ portLog[i].dtr = portLog[i - 1].dtr
                /\ portLog[i].rts = portLog[i - 1].rts)
    /\ [][<<dtr, rts>>' # <<dtr, rts>> => w.pc \in Routines]_vars
    /\ [][w.pc \in {"open", "close", "reopen", "flush", "write", "read",
                    "setBaudRate", "cleanup"}
            => <<dtr, rts>>' = <<dtr, rts>>]_vars

\* a run that did not get in sync, closed and reopened the port and went on
\* to change the baud rate, with a line asserted when it started
C33_Witness ==
    /\ w.round = 2
    /\ w.stage = "baudSync"
    /\ {"open", "close", "read", "write", "flush", "setBaudRate"}
           \subseteq CallsIn(OfThisRun(portLog))
    /\ portLog[1].call = "SerialConnection"
    /\ portLog[1].dtr
    /\ portLog[1].rts
    /\ ~dtr
    /\ ~rts

\* the line calls of a log, each as what it asks of the lines
Asked(e) ==
    CASE e.call = "setDTR" -> [dtr |-> {e.dtr}, rts |-> {}]
      [] e.call = "setRTS" -> [dtr |-> {}, rts |-> {e.rts}]
      [] e.call = "setDTRRTS" -> [dtr |-> {e.dtr}, rts |-> {e.rts}]

Both(d, r) == [dtr |-> {d}, rts |-> {r}]
OnlyDTR(d) == [dtr |-> {d}, rts |-> {}]
OnlyRTS(r) == [dtr |-> {}, rts |-> {r}]

\* the choreographies as they are listed
ListedUsbJtag ==
    <<Both(FALSE, FALSE), Both(TRUE, FALSE), OnlyRTS(TRUE), OnlyDTR(FALSE),
      OnlyRTS(TRUE), Both(FALSE, FALSE)>>

ListedClassic == <<Both(FALSE, TRUE), Both(TRUE, FALSE), OnlyDTR(FALSE)>>

ListedHardReset == <<OnlyDTR(FALSE), OnlyRTS(TRUE), OnlyRTS(FALSE)>>

\* the calls from the i-th on make the listed steps from the j-th on, in
\* order and nothing else: a step for one line is one call for that line, a
\* step for both lines is one call for both or one call for each
RECURSIVE Drives(_, _, _, _)
Drives(calls, i, listed, j) ==
    IF j > Len(listed) THEN i > Len(calls)
    ELSE IF i > Len(calls) THEN FALSE
    ELSE IF Asked(calls[i]) = listed[j] THEN Drives(calls, i + 1, listed, j + 1)
    ELSE /\ i < Len(calls)
         /\ listed[j].dtr # {}
         /\ listed[j].rts # {}
         /\ Asked(calls[i]).dtr \cup Asked(calls[i + 1]).dtr = listed[j].dtr
         /\ Asked(calls[i]).rts \cup Asked(calls[i + 1]).rts = listed[j].rts
         /\ Asked(calls[i]).dtr = {} \/ Asked(calls[i]).rts = {}
         /\ Asked(calls[i + 1]).dtr = {} \/ Asked(calls[i + 1]).rts = {}
         /\ Drives(calls, i + 2, listed, j + 1)

LineCallsOfThisRun == SelectSeq(OfThisRun(portLog), IsLineCall)

ListedEntry(port) ==
    IF port.vendorId = 12346 /\ port.productId = 4097
    THEN ListedUsbJtag
    ELSE ListedClassic

\* C34: a run that has opened its port makes the bootloader entry once: the
\* USB-JTAG-Serial choreography if vendorId = 0x303A and productId = 0x1001
\* and the classic one otherwise, each as the listed steps in the listed
\* order; the only line calls a run makes besides are those of one hard
\* reset at its end, again as listed; a run makes no line call before the
\* entry; and every choreography leaves both lines deasserted.
C34_ChoreographyAsListed ==
    /\ w.entries \in {0, 1}
    /\ w.entries = 0 =>
          /\ LineCallsOfThisRun = <<>>
          /\ w.pc \in {"idle", "open", "enterBootloaderMode", "cleanup", "done"}
          /\ w.round = 1
    /\ w.entries = 1 /\ w.pc \notin Routines =>
          /\ \/ Drives(LineCallsOfThisRun, 1, ListedEntry(w.port), 1)
             \/ Drives(LineCallsOfThisRun, 1,
                       ListedEntry(w.port) \o ListedHardReset, 1)
          /\ ~dtr
          /\ ~rts
    /\ w.pc \in {"usbJtagSerialReset", "classicReset"} =>
          (w.pc = "usbJtagSerialReset"
              <=> w.port.vendorId = 12346 /\ w.port.productId = 4097)

\* a second run, on a USB-JTAG-Serial port, is over after its entry and its
\* hard reset; the run before it made the classic entry
C34_Witness ==
    /\ runs = 2
    /\ w.pc = "done"
    /\ w.entries = 1
    /\ Len(LineCallsOfThisRun) = 12
    /\ portLog[1].call = "setDTRRTS"
    /\ Len(portLog) - Len(OfThisRun(portLog)) > 4

\* the call emptied the input buffer of the port: flush(), and the tcflush at
\* the end of an open() that got its descriptor
Flushes(e) == e.call = "flush" \/ (e.call = "open" /\ e.ok)

\* the log has a line call before the i-th call and no flush after the last
\* of them
UnflushedReset(log, i) ==
    \E j \in 1..(i - 1) :
        /\ IsLineCall(log[j])
        /\ \A k \in (j + 1)..(i - 1) : ~Flushes(log[k])

\* C35: after every reset choreography, the two bootloader entries and the
\* hard reset, the input buffer of the port is flushed before anything is
\* read from it again.
C35_FlushedBeforeReadAfterReset ==
    \A i \in 1..Len(portLog) :
        portLog[i].call = "read" => ~UnflushedReset(portLog, i)

\* a run reads after its bootloader entry, and the run before it ended with
\* a hard reset
C35_Witness ==
    /\ runs = 2
    /\ Len(portLog) > 4
    /\ portLog[1].call = "setDTR"
    /\ portLog[2].call = "setRTS"
    /\ portLog[2].rts
    /\ portLog[3].call = "setRTS"
    /\ portLog[4].call = "close"
    /\ w.entries = 1
    /\ portLog[Len(portLog)].call = "read"

=============================================================================
